---- MODULE Spec2Model ----
(***************************************************************************)
(* A model of gritt, a terminal front end for a Dyalog APL interpreter     *)
(* speaking the RIDE protocol.                                             *)
(*                                                                         *)
(*   - wire framing            (ride/protocol.go: sendRaw, recvRaw, Recv)  *)
(*   - connection handshake    (ride/client.go: Connect, handshake)        *)
(*   - the session buffer      (tui.go: execute, handleRide, edit keys)    *)
(*   - editor/tracer windows   (tui.go, editor.go, the editor pane)        *)
(*                                                                         *)
(* Each part has its own specification over the same variables; the        *)
(* variables of the other parts keep their initial values.                 *)
(***************************************************************************)
EXTENDS Integers, Sequences, FiniteSets, TLC

VARIABLES
    \* ---- wire framing: one byte stream, written by sendRaw, read by recvRaw
    wire,          \* bytes written and not yet read
    framesSent,    \* payloads handed to sendRaw, in order
    framesRecv,    \* payloads returned by recvRaw, in order
    lastFrame,     \* bytes of the most recent frame sendRaw wrote
    recvErr,       \* TRUE once recvRaw returned an error
    \* ---- handshake of one Connect call
    hsPc,          \* position of handshake() in its code
    hsRecvd,       \* frames Recv returned to handshake(), in order
    hsSent,        \* frames handshake() wrote, in order
    hsClosed,      \* conn.Close() was called by Connect
    \* ---- the TUI (tui.go: Model)
    connected,     \* m.connected
    ready,         \* m.ready
    lines,         \* m.lines: records [Text, Original, Edited]
    cursorRow,     \* m.cursorRow (0-based, as in the code)
    cursorCol,     \* m.cursorCol (0-based)
    lastExecute,   \* m.lastExecute
    pendingQuit,   \* m.pendingQuit
    leaderActive,  \* m.leaderActive
    client,        \* which connection m.client is: 1, then +1 each time reconnect closes it
    waiting,       \* connections on whose reader a waitForRide command is pending
    quit,          \* the event loop ended: Update returned tea.Quit or panicked
    editors,       \* m.editors: token -> index of the window object in heap
    heap,          \* the EditorWindow objects allocated so far
    tracerStack,   \* m.tracerStack
    tracerCurrent, \* m.tracerCurrent
    pm,            \* m.panes: the PaneManager [panes, zOrder, focusedID, screenW, screenH]
    width,         \* m.width
    height,        \* m.height
    paneMoveMode,  \* m.paneMoveMode
    confirmQuit,   \* m.confirmQuit
    backtickActive,\* m.backtickActive
    autocomplete,  \* m.autocomplete: the completion popup, NoPopup for nil
    \* ---- the local-socket service (main.go: runSocket, execCapture)
    sockPc,        \* per socket client: position of its goroutine in runSocket
    sockMu,        \* mu: 0 when free, else the client whose goroutine holds it
    sockReq,       \* per socket client: lines scanned so far; <<c, n>> names a request
    sockBuf,       \* per socket client: buf and result of its request, each piece by its origin
    sockExec,      \* Execute messages written to the interpreter, not yet taken up
    sockInterp,    \* the interpreter: [req, outs], req = NoReq when it is idle
    sockWire,      \* messages written by the interpreter, not yet returned by Recv
    sockUp,        \* the interpreter connection is open
    \* ---- one expression run without the UI (main.go: runExpr)
    runPc,         \* position of runExpr: send, recv, done, fatal (log.Fatalf), panic
    runWire,       \* frames written by the interpreter, not yet returned by Recv
    runUp,         \* the interpreter has not closed the connection
    runSent,       \* frames the interpreter has written
    runOut,        \* results printed
    \* ---- the reader worker and the UI loop (tui.go: startRecvLoop, waitForRide)
    mMsgs,         \* m.msgs: the connection whose worker writes to that channel
    rdChan,        \* per worker: the event it is blocked sending on its channel, or <<>>
    rdNext,        \* per worker: messages Recv returned to it so far
    rdDone,        \* per worker: it returned
    waiters,       \* per channel: waitForRide commands blocked receiving from it
    inbox,         \* events a waitForRide returned, not yet passed to Update
    handled,       \* the events Update handled, in order, as <<worker, index>>
    \* ---- observation of a run (not state of the program)
    sent,          \* the messages written to the connection by the last step
    path,          \* the branch of its handler the last step took
    sentExecute,   \* text of the most recent Execute that execute handed to send
    echoDue,       \* no output was dropped as the echo of that Execute yet
    pristine,      \* per session line: the text it had when it was last not marked edited
    unacked,       \* per token: SaveChanges written on this connection, not yet answered
    saveFailed,    \* per token: the last answer to a SaveChanges had err # 0
    saveQueue,     \* per token: text and stop of each SaveChanges counted in unacked, in order
    closeSent,     \* per token: CloseWindow messages written since the interpreter last opened or closed it
    nKeys,         \* key events handled so far
    nEvents        \* protocol events handled so far

frameVars == <<wire, framesSent, framesRecv, lastFrame, recvErr>>
hsVars == <<hsPc, hsRecvd, hsSent, hsClosed>>
sessVars == <<lines, cursorRow, cursorCol, lastExecute, pendingQuit, pristine, sentExecute,
              echoDue>>
connVars == <<connected, ready, client, waiting, quit, leaderActive>>
edVars == <<editors, heap, tracerStack, tracerCurrent, pm>>
ackVars == <<unacked, saveFailed, saveQueue, closeSent>>
obsVars == <<sent, path, nKeys, nEvents>>
overlayVars == <<backtickActive, autocomplete>>
sockVars == <<sockPc, sockMu, sockReq, sockBuf, sockExec, sockInterp, sockWire, sockUp>>
loopVars == <<mMsgs, rdChan, rdNext, rdDone, waiters, inbox, handled>>
runVars == <<runPc, runWire, runUp, runSent, runOut>>
svcVars == <<sockVars, loopVars, runVars>>
modeVars == <<width, height, paneMoveMode, confirmQuit, overlayVars, svcVars>>
tuiVars == <<sessVars, connVars, edVars, ackVars, obsVars, modeVars>>
vars == <<frameVars, hsVars, tuiVars>>

(***************************************************************************)
(* Generic helpers on sequences.                                           *)
(***************************************************************************)
Last(s) == s[Len(s)]

Take(s, n) == SubSeq(s, 1, n)

Drop(s, n) == SubSeq(s, n + 1, Len(s))

HasPrefix(s, p) == Len(s) >= Len(p) /\ Take(s, Len(p)) = p

RECURSIVE Flatten(_)
Flatten(ss) == IF ss = <<>> THEN <<>> ELSE Head(ss) \o Flatten(Tail(ss))

(***************************************************************************)
(* Wire framing.  Bytes are numbers 0..255.                                *)
(***************************************************************************)
\* "RIDE" in ASCII
rideHeader == <<82, 73, 68, 69>>

\* A uint32 is kept as two 16-bit halves [hi, lo], so that arithmetic wraps at
\* 2^32 as in the code.
Half == 65536

\* uint32(n) for an int 0 <= n < 2^31 (a length of a slice)
U32(n) == [hi |-> (n \div Half) % Half, lo |-> n % Half]

\* a + k in uint32, for 0 <= k < 2^16
U32Add(a, k) ==
    [hi |-> (a.hi + (a.lo + k) \div Half) % Half, lo |-> (a.lo + k) % Half]

\* a - k in uint32, for 0 <= k < 2^16
U32Sub(a, k) ==
    IF a.lo >= k THEN [hi |-> a.hi, lo |-> a.lo - k]
    ELSE [hi |-> (a.hi + Half - 1) % Half, lo |-> a.lo + Half - k]

\* binary.Write(w, binary.BigEndian, uint32)
BigEndian32(u) == << u.hi \div 256, u.hi % 256, u.lo \div 256, u.lo % 256 >>

\* binary.Read(r, binary.BigEndian, &uint32) on four bytes
FromBigEndian32(b) == [hi |-> b[1] * 256 + b[2], lo |-> b[3] * 256 + b[4]]

\* io.ReadFull into a buffer of u bytes fails when fewer than u bytes are left
ShortOf(have, u) == u.hi >= 32768 \/ have < u.hi * Half + u.lo

\* A plausible slip: the length counts tag and payload but not itself.
sendRawNoSelf(payload) ==
    LET data == rideHeader \o payload
    IN  BigEndian32(U32(Len(data))) \o data

\* sendRaw: the bytes written for one payload.
sendRaw(payload) ==
    LET data == rideHeader \o payload
        length == U32Add(U32(Len(data)), 4)
    IN  BigEndian32(length) \o data

\* A plausible slip: the tag is stripped as often as it occurs.
recvRawStripAll(r) ==
    IF Len(r) < 4
    THEN [err |-> "read length", payload |-> <<>>, rest |-> <<>>]
    ELSE LET length == FromBigEndian32(Take(r, 4))
             size == U32Sub(length, 4)
             after == Drop(r, 4)
             n == size.hi * Half + size.lo
             Strip[s \in Seq(0..255)] ==
                 IF HasPrefix(s, rideHeader) THEN Strip[Drop(s, 4)] ELSE s
         IN  IF ShortOf(Len(after), size)
             THEN [err |-> "read payload", payload |-> <<>>, rest |-> <<>>]
             ELSE [err |-> "", payload |-> Strip[Take(after, n)], rest |-> Drop(after, n)]

\* recvRaw on the bytes r still in the stream: the error ("" for none), the
\* payload returned and the bytes left unread.  The buffer size length-4 is
\* computed in uint32.
recvRaw(r) ==
    IF Len(r) < 4
    THEN [err |-> "read length", payload |-> <<>>, rest |-> <<>>]
    ELSE LET length == FromBigEndian32(Take(r, 4))
             size == U32Sub(length, 4)
             after == Drop(r, 4)
             n == size.hi * Half + size.lo
         IN  IF ShortOf(Len(after), size)
             THEN [err |-> "read payload", payload |-> <<>>, rest |-> <<>>]
             ELSE LET s == Take(after, n)
                  IN  [err |-> "",
                       payload |-> IF HasPrefix(s, rideHeader) THEN Drop(s, 4) ELSE s,
                       rest |-> Drop(after, n)]

\* Bounds of the framing specification.
MaxChunks == 2
MaxFrames == 2

\* Payloads are built from these pieces, so that payloads which are empty,
\* which begin with the tag, or which repeat it all occur: "RIDE", "[", "x".
PayloadChunks == { rideHeader, <<91>>, <<120>> }

ChunkSeqs == UNION { [1..n -> PayloadChunks] : n \in 0..MaxChunks }

Payloads == { Flatten(cs) : cs \in ChunkSeqs }

\* One call of sendRaw on the stream.
FrameSend ==
    /\ Len(framesSent) < MaxFrames
    /\ \E p \in Payloads :
          /\ wire' = wire \o sendRaw(p)
          /\ lastFrame' = sendRaw(p)
          /\ framesSent' = Append(framesSent, p)
    /\ UNCHANGED <<framesRecv, recvErr, hsVars, tuiVars>>

\* One call of recvRaw on the stream, once a frame has been written.
FrameRecv ==
    /\ wire # <<>>
    /\ ~recvErr
    /\ LET got == recvRaw(wire)
       IN  /\ wire' = got.rest
           /\ recvErr' = (got.err # "")
           /\ framesRecv' = IF got.err = "" THEN Append(framesRecv, got.payload)
                            ELSE framesRecv
    /\ UNCHANGED <<framesSent, lastFrame, hsVars, tuiVars>>

(***************************************************************************)
(* Protocol messages.  A frame's payload is one of the forms Recv tells    *)
(* apart: a line that does not begin with "[", JSON that does not parse,   *)
(* an array of fewer than two elements, a command name that is no string,  *)
(* arguments that are no object, and a command [name, args].  The args of  *)
(* a command are a record holding the keys that are present with a value   *)
(* of the expected JSON type.                                              *)
(***************************************************************************)
NoArgs == [k \in {} |-> 0]

LineFrame(t) == [form |-> "line", text |-> t, cmd |-> "", args |-> NoArgs]

JunkFrame(f) == [form |-> f, text |-> "[junk", cmd |-> "", args |-> NoArgs]

CmdFrame(c, a) == [form |-> "cmd", text |-> "", cmd |-> c, args |-> a]

Has(args, k) == k \in DOMAIN args

\* A plausible slip: a frame that fails to parse is taken for the line expected.
RecvLenient(frame) ==
    IF frame.form = "line"
    THEN [isMsg |-> FALSE, raw |-> frame.text, cmd |-> "", args |-> NoArgs]
    ELSE IF frame.form = "cmd"
    THEN [isMsg |-> TRUE, raw |-> "", cmd |-> frame.cmd, args |-> frame.args]
    ELSE [isMsg |-> FALSE, raw |-> "UsingProtocol=2", cmd |-> "", args |-> NoArgs]

\* Recv on a frame that was read without error: (msg, raw).
Recv(frame) ==
    IF frame.form = "cmd"
    THEN [isMsg |-> TRUE, raw |-> "", cmd |-> frame.cmd, args |-> frame.args]
    ELSE [isMsg |-> FALSE, raw |-> frame.text, cmd |-> "", args |-> NoArgs]

(***************************************************************************)
(* The handshake of one Connect call.  The peer is free: at each Recv it   *)
(* delivers any frame or closes the stream, and any write may fail.        *)
(***************************************************************************)
MaxDrain == 3

SupportedLine == "SupportedProtocols=2"

UsingLine == "UsingProtocol=2"

IdentifyMsg == CmdFrame("Identify", [apiVersion |-> 1, identity |-> 1])

ConnectMsg == CmdFrame("Connect", [remoteId |-> 2])

PeerFrames ==
    { LineFrame(SupportedLine), LineFrame(UsingLine), LineFrame("SupportedProtocols=1"),
      JunkFrame("badjson"), JunkFrame("short"),
      CmdFrame("SetPromptType", [type |-> 0]),
      CmdFrame("SetPromptType", [type |-> 1]),
      CmdFrame("SetPromptType", NoArgs),
      CmdFrame("AppendSessionOutput", [type |-> 1]) }

\* Connect: a handshake error closes the connection and returns the error.
HsFail ==
    /\ hsPc' = "failed"
    /\ hsClosed' = TRUE

\* Write the frames fs in order; the n-th write may fail, which ends Connect.
HsWrite(fs, next) ==
    \E n \in 0..Len(fs) :
        /\ hsSent' = hsSent \o Take(fs, n)
        /\ IF n = Len(fs)
           THEN hsPc' = next /\ UNCHANGED hsClosed
           ELSE HsFail
        /\ UNCHANGED hsRecvd

\* Recv fails: the stream ended.
HsRecvError ==
    /\ hsPc \in {"recvSupported", "recvUsing", "waitReady"}
    /\ HsFail
    /\ UNCHANGED <<hsRecvd, hsSent, frameVars, tuiVars>>

\* "Receive SupportedProtocols from Dyalog"
HsRecvSupported ==
    /\ hsPc = "recvSupported"
    /\ \E f \in PeerFrames :
          /\ hsRecvd' = Append(hsRecvd, f)
          /\ IF Recv(f).raw # SupportedLine
             THEN HsFail
             ELSE hsPc' = "sendProtocols" /\ UNCHANGED hsClosed
    /\ UNCHANGED <<hsSent, frameVars, tuiVars>>

\* "Send our handshake"
HsSendProtocols ==
    /\ hsPc = "sendProtocols"
    /\ HsWrite(<<LineFrame(SupportedLine), LineFrame(UsingLine)>>, "recvUsing")
    /\ UNCHANGED <<frameVars, tuiVars>>

\* "Receive UsingProtocol"
HsRecvUsing ==
    /\ hsPc = "recvUsing"
    /\ \E f \in PeerFrames :
          /\ hsRecvd' = Append(hsRecvd, f)
          /\ IF Recv(f).raw # UsingLine
             THEN HsFail
             ELSE hsPc' = "sendIdentify" /\ UNCHANGED hsClosed
    /\ UNCHANGED <<hsSent, frameVars, tuiVars>>

\* "Send Identify and Connect"
HsSendIdentify ==
    /\ hsPc = "sendIdentify"
    /\ HsWrite(<<IdentifyMsg, ConnectMsg>>, "waitReady")
    /\ UNCHANGED <<frameVars, tuiVars>>

\* "Wait for SetPromptType with type > 0 (interpreter ready)": one turn of the loop.
HsWaitReady ==
    /\ hsPc = "waitReady"
    /\ Len(hsRecvd) < 2 + MaxDrain
    /\ \E f \in PeerFrames :
          LET got == Recv(f)
          IN  /\ hsRecvd' = Append(hsRecvd, f)
              /\ hsPc' = IF /\ got.isMsg
                            /\ got.cmd = "SetPromptType"
                            /\ Has(got.args, "type")
                            /\ got.args.type > 0
                         THEN "ready" ELSE "waitReady"
    /\ UNCHANGED <<hsSent, hsClosed, frameVars, tuiVars>>

(***************************************************************************)
(* Part 3: the session buffer (tui.go).  Text is a sequence of one-rune    *)
(* strings; rows and columns are 0-based as in the code, so the current    *)
(* line is lines[cursorRow + 1].                                           *)
(***************************************************************************)

\* Most lines the session buffer grows to.
MaxLines == 3
\* Most runes a session line grows to.
MaxLineLen == 10
\* Most key events of a run.
MaxKeys == 4
\* Most protocol events of a run.
MaxEvents == 2
\* Most events of a run, keys and protocol events together.
MaxSteps == 5
\* Most connections of a run (the first one and the reconnect attempts).
MaxConns == 3
\* Window tokens the interpreter uses.
MaxToken == 2
\* Most EditorWindow objects allocated in a run.
MaxWindows == 2
\* Most runes of a line of window text.
MaxWinLineLen == 2
\* Most SaveChanges of one window left unanswered.
MaxUnacked == 2
\* Most key events of a run with windows.
MaxEdKeys == 4
\* Most protocol events of a run with windows.
MaxEdEvents == 3
\* Most events of a run with windows, keys and protocol events together.
MaxEdSteps == 5

Tokens == 1..MaxToken

\* Clients of the local-socket service, and lines each of them sends.
NClients == 2
MaxReq == 2
\* Most messages the interpreter writes between the echo of an Execute and
\* the prompt that ends its answer.
MaxOut == 2
\* Most messages one reader worker receives.
MaxMsgs == 2

Clients == 1..NClients
Conns == 1..MaxConns
NoReq == <<0, 0>>

\* m.autocomplete == nil
NoPopup == [open |-> FALSE, Options |-> <<>>, Selected |-> 0, Skip |-> 0, Token |-> 0,
            TriggerCol |-> 0]

\* const aplIndent: six spaces.
aplIndent == <<" ", " ", " ", " ", " ", " ">>
\* The shutdown expression execute and handleRide compare with.
OffExpr == <<")", "o", "f", "f">>
\* The marker handleRide appends after a read error.
DisconnectedText == <<"#", "D">>
\* pageSize of handleSessionKey when the height is not known yet.
PageSize == 10

\* Line{Text: t}
Line(t) == [Text |-> t, Original |-> <<>>, Edited |-> FALSE]

IsSpace(c) == c \in {" ", "\n", "\t"}

RECURSIVE TrimLeft(_)
TrimLeft(s) == IF s # <<>> /\ IsSpace(Head(s)) THEN TrimLeft(Tail(s)) ELSE s

RECURSIVE TrimRight(_)
TrimRight(s) ==
    IF s # <<>> /\ IsSpace(Last(s)) THEN TrimRight(Take(s, Len(s) - 1)) ELSE s

\* strings.TrimSpace
TrimSpace(s) == TrimRight(TrimLeft(s))

\* strings.TrimSuffix(s, "\n")
TrimSuffixNL(s) == IF s # <<>> /\ Last(s) = "\n" THEN Take(s, Len(s) - 1) ELSE s

\* Position of the first newline of s, 0 when there is none.
IndexNL(s) ==
    IF \E i \in 1..Len(s) : s[i] = "\n"
    THEN CHOOSE i \in 1..Len(s) : s[i] = "\n" /\ \A j \in 1..(i - 1) : s[j] # "\n"
    ELSE 0

\* strings.Split(s, "\n")
RECURSIVE Split(_)
Split(s) ==
    IF IndexNL(s) = 0 THEN << s >>
    ELSE << Take(s, IndexNL(s) - 1) >> \o Split(Drop(s, IndexNL(s)))

RECURSIVE AppendLines(_, _)
AppendLines(ls, texts) ==
    IF texts = <<>> THEN ls
    ELSE AppendLines(Append(ls, Line(Head(texts))), Tail(texts))

\* The buffer and caret the editing functions work on.
Buf == [lines |-> lines, row |-> cursorRow, col |-> cursorCol]

currentLine(b) ==
    IF b.row >= 0 /\ b.row < Len(b.lines) THEN b.lines[b.row + 1].Text ELSE <<>>

\* setCurrentLine that snapshots the text on every modification.
setCurrentLineAlways(b, text) ==
    IF b.row < 0 \/ b.row >= Len(b.lines) THEN b
    ELSE [b EXCEPT !.lines[b.row + 1] =
            [Text |-> text, Original |-> @.Text, Edited |-> TRUE]]

setCurrentLine(b, text) ==
    IF b.row < 0 \/ b.row >= Len(b.lines) THEN b
    ELSE [b EXCEPT !.lines[b.row + 1] =
            [Text |-> text,
             Original |-> IF @.Edited THEN @.Original ELSE @.Text,
             Edited |-> TRUE]]

insertChar(b, r) ==
    LET runes == currentLine(b)
        nb == setCurrentLine(b, Take(runes, b.col) \o << r >> \o Drop(runes, b.col))
    IN  [nb EXCEPT !.col = b.col + 1]

RECURSIVE insertRunes(_, _)
insertRunes(b, rs) ==
    IF rs = <<>> THEN b ELSE insertRunes(insertChar(b, Head(rs)), Tail(rs))

deleteCharBack(b) ==
    IF b.col > 0
    THEN LET runes == currentLine(b)
             nb == setCurrentLine(b, Take(runes, b.col - 1) \o Drop(runes, b.col))
         IN  [nb EXCEPT !.col = b.col - 1]
    ELSE b

deleteCharForward(b) ==
    LET runes == currentLine(b)
    IN  IF b.col < Len(runes)
        THEN setCurrentLine(b, Take(runes, b.col) \o Drop(runes, b.col + 1))
        ELSE b

clampCol(b) ==
    IF b.col > Len(currentLine(b)) THEN [b EXCEPT !.col = Len(currentLine(b))] ELSE b

Max(a, b) == IF a > b THEN a ELSE b
Min(a, b) == IF a < b THEN a ELSE b

\* handleSessionKey, every key but Enter.
handleSessionKey(b, k) ==
    CASE k.text = "backspace" -> deleteCharBack(b)
      [] k.text = "delete" -> deleteCharForward(b)
      [] k.text = "left" -> IF b.col > 0 THEN [b EXCEPT !.col = b.col - 1] ELSE b
      [] k.text = "right" ->
            IF b.col < Len(currentLine(b)) THEN [b EXCEPT !.col = b.col + 1] ELSE b
      [] k.text = "up" ->
            IF b.row > 0 THEN clampCol([b EXCEPT !.row = b.row - 1]) ELSE b
      [] k.text = "down" ->
            IF b.row < Len(b.lines) - 1 THEN clampCol([b EXCEPT !.row = b.row + 1]) ELSE b
      [] k.text = "home" -> [b EXCEPT !.col = 0]
      [] k.text = "end" -> [b EXCEPT !.col = Len(currentLine(b))]
      [] k.text = "pgup" -> clampCol([b EXCEPT !.row = Max(0, b.row - PageSize)])
      [] k.text = "pgdown" ->
            clampCol([b EXCEPT !.row = Min(Len(b.lines) - 1, b.row + PageSize)])
      [] k.text = "space" -> insertChar(b, " ")
      [] OTHER -> insertRunes(b, k.args.runes)

(***************************************************************************)
(* The pane manager (pane.go).  A pane id is a pair: <<"editor", token>>,  *)
(* <<"tracer", 0>> or <<"debug", 0>>.  A pane record holds what the pane's *)
(* content points to: the window object, the editor pane's editMode, and   *)
(* the Model copy its callbacks closed over.                               *)
(***************************************************************************)

\* focusedID == ""
NoPane == <<"", 0>>

RECURSIVE RemoveFirst(_, _)
RemoveFirst(zs, id) ==
    IF zs = <<>> THEN <<>>
    ELSE IF Head(zs) = id THEN Tail(zs)
    ELSE << Head(zs) >> \o RemoveFirst(Tail(zs), id)

InSeq(zs, id) == \E i \in 1..Len(zs) : zs[i] = id

\* Index of the first occurrence of id in zs.
IndexOf(zs, id) == CHOOSE i \in 1..Len(zs) : zs[i] = id /\ \A j \in 1..(i - 1) : zs[j] # id

\* NewPaneManager
NewPaneManager ==
    [panes |-> [i \in {} |-> 0], zOrder |-> <<>>, focusedID |-> NoPane,
     screenW |-> 80, screenH |-> 24]

\* PaneManager.Add
Add(m, id, pane) ==
    [m EXCEPT !.panes = [i \in DOMAIN m.panes \cup {id} |-> IF i = id THEN pane ELSE m.panes[i]],
              !.zOrder = Append(m.zOrder, id)]

\* PaneManager.Remove
Remove(m, id) ==
    [m EXCEPT !.panes = [i \in DOMAIN m.panes \ {id} |-> m.panes[i]],
              !.zOrder = RemoveFirst(m.zOrder, id),
              !.focusedID = IF m.focusedID = id THEN NoPane ELSE m.focusedID]

\* PaneManager.raise
raise(zs, id) == IF InSeq(zs, id) THEN Append(RemoveFirst(zs, id), id) ELSE zs

\* PaneManager.Focus
Focus(m, id) ==
    LET cleared == [i \in DOMAIN m.panes |->
                       IF i = m.focusedID THEN [m.panes[i] EXCEPT !.Focused = FALSE]
                       ELSE m.panes[i]]
    IN  IF id \in DOMAIN m.panes
        THEN [m EXCEPT !.panes = [cleared EXCEPT ![id].Focused = TRUE],
                       !.zOrder = raise(m.zOrder, id),
                       !.focusedID = id]
        ELSE [m EXCEPT !.panes = cleared, !.focusedID = id]

\* PaneManager.FocusNext
FocusNext(m) ==
    IF m.zOrder = <<>> THEN m
    ELSE IF m.focusedID = NoPane THEN Focus(m, m.zOrder[1])
    ELSE IF InSeq(m.zOrder, m.focusedID)
         THEN Focus(m, m.zOrder[(IndexOf(m.zOrder, m.focusedID) % Len(m.zOrder)) + 1])
         ELSE m

\* PaneManager.FocusedPane: the id of the focused pane, NoPane for nil.
FocusedPane(m) == IF m.focusedID \in DOMAIN m.panes THEN m.focusedID ELSE NoPane

\* PaneManager.HasPanes
HasPanes(m) == DOMAIN m.panes # {}

(***************************************************************************)
(* Pane geometry (pane.go, tui.go).  Coordinates are screen cells; a pane  *)
(* record holds the fields of Pane next to those of its content.           *)
(***************************************************************************)

\* MinW and MinH every pane is created with.
DefaultMinW == 20
DefaultMinH == 5

\* a / b of Go for b > 0: the quotient truncated toward zero.
Quot(a, b) == IF a >= 0 THEN a \div b ELSE -((-a) \div b)

\* NewPane around a content record.
NewPane(content, x, y, w, h) ==
    content @@ [X |-> x, Y |-> y, Width |-> w, Height |-> h,
                MinW |-> DefaultMinW, MinH |-> DefaultMinH,
                dragging |-> FALSE, dragMode |-> "None",
                dragStartX |-> 0, dragStartY |-> 0,
                dragOffsetX |-> 0, dragOffsetY |-> 0]

\* The pane of an editor or tracer window: centred, at most 60 x 20 and at
\* least 30 x 10.
CenteredPane(content) ==
    LET paneW == Max(Min(width - 4, 60), 30)
        paneH == Max(Min(height - 6, 20), 10)
    IN  NewPane(content, Quot(width - paneW, 2), Quot(height - paneH, 2), paneW, paneH)

\* clamp(v, min, max)
clamp(v, lo, hi) == IF v < lo THEN lo ELSE IF v > hi THEN hi ELSE v

\* Pane.HitZone: where the cell (x, y) falls on pane p.
HitZone(p, x, y) ==
    IF x < p.X \/ x >= p.X + p.Width \/ y < p.Y \/ y >= p.Y + p.Height THEN "None"
    ELSE LET relX == x - p.X
             relY == y - p.Y
         IN  IF relY = 0 /\ relX = 0 THEN "CornerNW"
             ELSE IF relY = 0 /\ relX = p.Width - 1 THEN "CornerNE"
             ELSE IF relY = p.Height - 1 /\ relX = 0 THEN "CornerSW"
             ELSE IF relY = p.Height - 1 /\ relX = p.Width - 1 THEN "CornerSE"
             ELSE IF relY = 0 THEN "TitleBar"
             ELSE IF relY = p.Height - 1 THEN "EdgeS"
             ELSE IF relX = 0 THEN "EdgeW"
             ELSE IF relX = p.Width - 1 THEN "EdgeE"
             ELSE "Content"

\* zoneToDragMode
zoneToDragMode(zone) ==
    CASE zone = "TitleBar" -> "Move"
      [] zone = "EdgeN" -> "ResizeN"
      [] zone = "EdgeS" -> "ResizeS"
      [] zone = "EdgeE" -> "ResizeE"
      [] zone = "EdgeW" -> "ResizeW"
      [] zone = "CornerNE" -> "ResizeNE"
      [] zone = "CornerNW" -> "ResizeNW"
      [] zone = "CornerSE" -> "ResizeSE"
      [] zone = "CornerSW" -> "ResizeSW"
      [] OTHER -> "None"

\* Pane.StartDrag
StartDrag(p, mode, mouseX, mouseY) ==
    [p EXCEPT !.dragging = TRUE, !.dragMode = mode,
              !.dragStartX = mouseX, !.dragStartY = mouseY,
              !.dragOffsetX = mouseX - p.X, !.dragOffsetY = mouseY - p.Y]

\* Pane.StopDrag
StopDrag(p) == [p EXCEPT !.dragging = FALSE, !.dragMode = "None"]

\* The west edge follows the pointer while the width stays at least MinW.
dragWest(p, mouseX) ==
    IF p.Width + (p.dragStartX - mouseX) >= p.MinW
    THEN [p EXCEPT !.X = mouseX, !.Width = p.Width + (p.dragStartX - mouseX),
                   !.dragStartX = mouseX]
    ELSE p

\* The north edge follows the pointer while the height stays at least MinH.
dragNorth(p, mouseY) ==
    IF p.Height + (p.dragStartY - mouseY) >= p.MinH
    THEN [p EXCEPT !.Y = mouseY, !.Height = p.Height + (p.dragStartY - mouseY),
                   !.dragStartY = mouseY]
    ELSE p

\* Pane.UpdateDrag
UpdateDrag(p, mouseX, mouseY, screenW, screenH) ==
    IF ~p.dragging THEN p
    ELSE CASE p.dragMode = "Move" ->
                [p EXCEPT !.X = clamp(mouseX - p.dragOffsetX, -p.Width + 5, screenW - 5),
                          !.Y = clamp(mouseY - p.dragOffsetY, 0, screenH - 1)]
           [] p.dragMode = "ResizeE" -> [p EXCEPT !.Width = Max(mouseX - p.X + 1, p.MinW)]
           [] p.dragMode = "ResizeS" -> [p EXCEPT !.Height = Max(mouseY - p.Y + 1, p.MinH)]
           [] p.dragMode = "ResizeW" -> dragWest(p, mouseX)
           [] p.dragMode = "ResizeN" -> dragNorth(p, mouseY)
           [] p.dragMode = "ResizeSE" ->
                [p EXCEPT !.Width = Max(mouseX - p.X + 1, p.MinW),
                          !.Height = Max(mouseY - p.Y + 1, p.MinH)]
           [] p.dragMode = "ResizeSW" ->
                LET q == IF p.X + p.Width - mouseX >= p.MinW
                         THEN [p EXCEPT !.X = mouseX, !.Width = p.X + p.Width - mouseX]
                         ELSE p
                IN  [q EXCEPT !.Height = Max(mouseY - q.Y + 1, q.MinH)]
           [] p.dragMode = "ResizeNE" ->
                dragNorth([p EXCEPT !.Width = Max(mouseX - p.X + 1, p.MinW)], mouseY)
           [] p.dragMode = "ResizeNW" -> dragNorth(dragWest(p, mouseX), mouseY)
           [] OTHER -> p

\* The position in zs of the topmost pane that covers the cell (x, y), 0 for none.
RECURSIVE TopAt(_, _, _, _)
TopAt(m, i, x, y) ==
    IF i = 0 THEN 0
    ELSE IF m.zOrder[i] \in DOMAIN m.panes /\ HitZone(m.panes[m.zOrder[i]], x, y) # "None"
    THEN i
    ELSE TopAt(m, i - 1, x, y)

\* PaneManager.PaneAt: the id of that pane, NoPane for nil.
PaneAt(m, x, y) ==
    IF TopAt(m, Len(m.zOrder), x, y) = 0 THEN NoPane
    ELSE m.zOrder[TopAt(m, Len(m.zOrder), x, y)]

\* PaneManager.UpdateSize
UpdateSize(m, w, h) ==
    [m EXCEPT !.screenW = w, !.screenH = h,
              !.panes = [i \in DOMAIN m.panes |->
                            [m.panes[i] EXCEPT !.X = IF @ > w - 5 THEN w - 5 ELSE @,
                                               !.Y = IF @ >= h THEN h - 1 ELSE @]]]

\* PaneManager.FocusPrev
FocusPrev(m) ==
    IF m.zOrder = <<>> THEN m
    ELSE IF m.focusedID = NoPane THEN Focus(m, m.zOrder[Len(m.zOrder)])
    ELSE IF InSeq(m.zOrder, m.focusedID)
         THEN Focus(m, m.zOrder[((IndexOf(m.zOrder, m.focusedID) - 2 + Len(m.zOrder))
                                   % Len(m.zOrder)) + 1])
         ELSE m

(***************************************************************************)
(* Events.                                                                 *)
(***************************************************************************)

KeyEv(t) == [form |-> "key", text |-> t, cmd |-> "", args |-> NoArgs]
RunesEv(rs) == [form |-> "key", text |-> "runes", cmd |-> "", args |-> [runes |-> rs]]

\* The runes one key event carries: a typed rune or a paste.
RuneInputs == { << "a" >>, OffExpr }

\* The keys handleSessionKey tells apart, Enter excepted.
EditKeys ==
    { KeyEv(t) : t \in {"backspace", "delete", "left", "right", "up", "down",
                        "home", "end", "pgup", "pgdown", "space"} }
    \cup { RunesEv(rs) : rs \in RuneInputs }

\* A key event enters handleKey.
KeyStep ==
    /\ ~quit
    /\ ~backtickActive
    /\ ~confirmQuit
    /\ ~paneMoveMode
    /\ nKeys < MaxKeys
    /\ nKeys + nEvents < MaxSteps
    /\ nKeys' = nKeys + 1
    /\ UNCHANGED nEvents

\* The event loop takes an event of the current connection's reader.
RideStep ==
    /\ ~quit
    /\ nEvents < MaxEvents
    /\ nKeys + nEvents < MaxSteps
    /\ client \in waiting
    /\ nEvents' = nEvents + 1
    /\ UNCHANGED nKeys

\* The text each line had when it was last not marked edited.
Pristine(nl) ==
    [i \in 1..Len(nl) |->
        IF i > Len(lines) \/ ~nl[i].Edited THEN nl[i].Text ELSE pristine[i]]

SetBuf(nb) ==
    /\ lines' = nb.lines
    /\ cursorRow' = nb.row
    /\ cursorCol' = nb.col
    /\ pristine' = Pristine(nb.lines)

bufVars == <<lines, cursorRow, cursorCol, pristine>>

(***************************************************************************)
(* Init: the state after construction.  NewModel is given a connected      *)
(* client, so the TUI starts connected and ready with one indented line.   *)
(***************************************************************************)
Init ==
    /\ wire = <<>>
    /\ framesSent = <<>>
    /\ framesRecv = <<>>
    /\ lastFrame = <<>>
    /\ recvErr = FALSE
    /\ hsPc = "recvSupported"
    /\ hsRecvd = <<>>
    /\ hsSent = <<>>
    /\ hsClosed = FALSE
    /\ connected = TRUE
    /\ ready = TRUE
    /\ lines = << Line(aplIndent) >>
    /\ cursorRow = 0
    /\ cursorCol = Len(aplIndent)
    /\ lastExecute = <<>>
    /\ pendingQuit = FALSE
    /\ leaderActive = FALSE
    /\ client = 1
    /\ waiting = {1}
    /\ quit = FALSE
    /\ editors = [t \in {} |-> 0]
    /\ heap = <<>>
    /\ tracerStack = <<>>
    /\ tracerCurrent = 0
    /\ pm = NewPaneManager
    /\ width = 0
    /\ height = 0
    /\ paneMoveMode = FALSE
    /\ confirmQuit = FALSE
    /\ backtickActive = FALSE
    /\ autocomplete = NoPopup
    /\ sockPc = [c \in Clients |-> "scan"]
    /\ sockMu = 0
    /\ sockReq = [c \in Clients |-> 0]
    /\ sockBuf = [c \in Clients |-> <<>>]
    /\ sockExec = <<>>
    /\ sockInterp = [req |-> NoReq, outs |-> 0]
    /\ sockWire = <<>>
    /\ sockUp = TRUE
    /\ runPc = "send"
    /\ runWire = <<>>
    /\ runUp = TRUE
    /\ runSent = 0
    /\ runOut = <<>>
    /\ mMsgs = 1
    /\ rdChan = [k \in Conns |-> <<>>]
    /\ rdNext = [k \in Conns |-> 0]
    /\ rdDone = [k \in Conns |-> FALSE]
    /\ waiters = [k \in Conns |-> IF k = 1 THEN 1 ELSE 0]
    /\ inbox = {}
    /\ handled = <<>>
    /\ sent = <<>>
    /\ path = "init"
    /\ sentExecute = <<>>
    /\ echoDue = FALSE
    /\ pristine = << aplIndent >>
    /\ unacked = [t \in Tokens |-> 0]
    /\ saveFailed = [t \in Tokens |-> FALSE]
    /\ saveQueue = [t \in Tokens |-> <<>>]
    /\ closeSent = [t \in Tokens |-> 0]
    /\ nKeys = 0
    /\ nEvents = 0

(***************************************************************************)
(* Session actions.                                                        *)
(***************************************************************************)

\* Model.send: refused when not connected, else the write succeeds or fails.
send(conn, ok) == IF ~conn THEN "refused" ELSE IF ok THEN "written" ELSE "failed"

ExecuteMsg(text) == CmdFrame("Execute", [text |-> text, trace |-> 0])

\* executeBuf that leaves the flag of the input line alone.
executeBufKeepFlag(b) ==
    LET editedText == currentLine(b)
        lastIdx == Len(b.lines)
    IN  [lines |-> [b.lines EXCEPT ![lastIdx].Text = editedText],
         row |-> lastIdx - 1,
         col |-> Len(editedText)]

\* The buffer execute leaves when the current line is not blank.
executeBuf(b) ==
    LET editedText == currentLine(b)
        cur == b.row + 1
        lastIdx == Len(b.lines)
        restored == IF cur # lastIdx /\ b.lines[cur].Edited
                    THEN [b.lines EXCEPT ![cur] = Line(@.Original)]
                    ELSE b.lines
    IN  [lines |-> [restored EXCEPT ![lastIdx] = Line(editedText)],
         row |-> lastIdx - 1,
         col |-> Len(editedText)]

\* A test that takes every line that is not blank for the shutdown expression.
isOffAny(editedText) == TrimSpace(editedText) # <<>>

\* execute: strings.TrimSpace(editedText) == ")off"
isOff(editedText) == TrimSpace(editedText) = OffExpr

\* An execute that is never held back.
blockedNever(rdy) == FALSE

\* execute: if !m.ready, nothing is done.
blocked(rdy) == ~rdy

\* execute; ok says whether the write of client.Send succeeds.
execute(ok) ==
    LET editedText == currentLine(Buf)
        code == TrimSpace(editedText)
        isInputLine == cursorRow = Len(lines) - 1
        how == send(connected, ok)
    IN  IF blocked(ready)
        THEN /\ sent' = <<>>
             /\ path' = "execute.blocked"
             /\ UNCHANGED <<sessVars, connected, ready>>
        ELSE IF code = <<>>
        THEN /\ path' = "execute.blank"
             /\ IF isInputLine
                THEN /\ Len(lines) < MaxLines
                     /\ SetBuf([lines |-> Append(lines, Line(aplIndent)),
                                row |-> Len(lines),
                                col |-> Len(aplIndent)])
                ELSE UNCHANGED bufVars
             /\ sent' = <<>>
             /\ UNCHANGED <<lastExecute, pendingQuit, sentExecute, echoDue, connected, ready>>
        ELSE /\ SetBuf(executeBuf(Buf))
             /\ path' = IF isInputLine THEN "execute.input"
                        ELSE IF lines[cursorRow + 1].Edited THEN "execute.edited"
                        ELSE "execute.history"
             /\ ready' = FALSE
             /\ lastExecute' = editedText \o << "\n" >>
             /\ pendingQuit' = isOff(editedText)
             /\ sentExecute' = editedText \o << "\n" >>
             /\ echoDue' = TRUE
             /\ sent' = IF how = "written"
                        THEN << ExecuteMsg(editedText \o << "\n" >>) >> ELSE <<>>
             /\ connected' = IF how = "failed" THEN FALSE ELSE connected

\* handleKey -> handleSessionKey, Enter: no mode is active, no pane is focused.
SessionEnter ==
    /\ KeyStep
    /\ ~leaderActive
    /\ ~autocomplete.open
    /\ FocusedPane(pm) = NoPane
    /\ \E ok \in BOOLEAN : execute(ok)
    /\ UNCHANGED <<client, waiting, quit, leaderActive, edVars, ackVars, frameVars, hsVars, modeVars>>

\* handleKey -> handleSessionKey, the other keys.
SessionEdit ==
    \E k \in EditKeys :
        /\ KeyStep
        /\ ~leaderActive
        /\ ~autocomplete.open
        /\ FocusedPane(pm) = NoPane
        /\ path' = "sessionKey"
        /\ LET nb == handleSessionKey(Buf, k)
           IN  /\ Len(currentLine(nb)) <= MaxLineLen
               /\ SetBuf(nb)
        /\ sent' = <<>>
        /\ UNCHANGED <<lastExecute, pendingQuit, sentExecute, echoDue, connVars, edVars, ackVars,
                       frameVars, hsVars, modeVars>>

\* What the AppendSessionOutput case of handleRide does with the buffer and
\* with lastExecute: skipped is "echo", "off" or "" (not skipped).
appendSessionOutput(b, last, args) ==
    LET isInput == Has(args, "type") /\ args.type = 14
        hasResult == Has(args, "result")
    IN  IF isInput /\ hasResult /\ args.result = last
        THEN [buf |-> b, lastExecute |-> <<>>, skipped |-> "echo"]
        ELSE IF isInput /\ hasResult /\ TrimSpace(args.result) = OffExpr
        THEN [buf |-> b, lastExecute |-> last, skipped |-> "off"]
        ELSE IF hasResult
        THEN LET nl == AppendLines(b.lines, Split(TrimSuffixNL(args.result)))
             IN  [buf |-> [lines |-> nl, row |-> Len(nl) - 1, col |-> 0],
                  lastExecute |-> last, skipped |-> ""]
        ELSE [buf |-> b, lastExecute |-> last, skipped |-> ""]

\* The results the peer reports: output, a blank, the shutdown expression,
\* and whatever the client executed.
Results ==
    { <<>>, << "b", "\n" >>, << "b", "\n", "c" >>, OffExpr \o << "\n" >>,
      lastExecute, sentExecute }

OutputArgs ==
    { [type |-> ty, result |-> r] : ty \in {14, 1}, r \in Results }
    \cup { [result |-> r] : r \in Results }
    \cup { [type |-> 14] }

\* handleRide, case "AppendSessionOutput", for a message with arguments args.
OutputEvent(args) ==
    /\ RideStep
    /\ LET r == appendSessionOutput(Buf, lastExecute, args)
       IN  /\ Len(r.buf.lines) <= MaxLines
           /\ SetBuf(r.buf)
           /\ lastExecute' = r.lastExecute
           /\ echoDue' = IF r.skipped = "echo" THEN FALSE ELSE echoDue
           /\ path' = IF r.skipped = "echo" THEN "output.echo"
                      ELSE IF r.skipped = "off" THEN "output.off"
                      ELSE IF Has(args, "result") THEN "output.appended"
                      ELSE "output.none"
    /\ sent' = <<>>
    /\ UNCHANGED <<pendingQuit, sentExecute, connVars, edVars, ackVars, frameVars, hsVars, modeVars>>

RideAppendSessionOutput == \E args \in OutputArgs : OutputEvent(args)

\* setPromptType that opens an input line for every prompt type.
setPromptTypeAnyType(b, t) ==
    [lines |-> Append(b.lines, Line(aplIndent)), row |-> Len(b.lines), col |-> Len(aplIndent)]

\* The buffer the SetPromptType case of handleRide leaves for a numeric type t.
setPromptType(b, t) ==
    IF t > 0
    THEN [lines |-> Append(b.lines, Line(aplIndent)), row |-> Len(b.lines), col |-> Len(aplIndent)]
    ELSE b

PromptArgs == { [type |-> 0], [type |-> 1], [type |-> 4], NoArgs }

\* The label of a SetPromptType step: the type the message carried.
PromptPath(t) == CASE t = 0 -> "prompt.0" [] t = 1 -> "prompt.1" [] OTHER -> "prompt.4"

\* handleRide, case "SetPromptType".
RideSetPromptType ==
    \E args \in PromptArgs :
        /\ RideStep
        /\ IF Has(args, "type")
           THEN /\ path' = PromptPath(args.type)
                /\ ready' = (args.type > 0)
                /\ Len(setPromptType(Buf, args.type).lines) <= MaxLines
                /\ SetBuf(setPromptType(Buf, args.type))
           ELSE path' = "prompt.none" /\ UNCHANGED <<ready, bufVars>>
        /\ sent' = <<>>
        /\ UNCHANGED <<lastExecute, pendingQuit, sentExecute, echoDue, connected, client,
                       waiting, quit, leaderActive, edVars, ackVars, frameVars, hsVars, modeVars>>

\* handleRide, ev.msg == nil: a frame that is not a message is only logged.
RideRaw ==
    /\ RideStep
    /\ path' = "raw"
    /\ sent' = <<>>
    /\ UNCHANGED <<sessVars, connVars, edVars, ackVars, frameVars, hsVars, modeVars>>

\* An error branch that starts the session buffer afresh with the marker.
disconnectedFresh(b) ==
    [lines |-> << Line(DisconnectedText), Line(<<>>) >>, row |-> 1, col |-> 0]

\* The buffer the error branch of handleRide leaves: the marker and a blank
\* line appended, the caret on the blank line.
disconnected(b) ==
    [lines |-> b.lines \o << Line(DisconnectedText), Line(<<>>) >>,
     row |-> Len(b.lines) + 1,
     col |-> 0]

\* handleRide, ev.err != nil: the reader of connection c reported an error
\* and ended; no waitForRide follows.
Disconnect ==
    \E c \in waiting :
        /\ ~quit
        /\ nEvents < MaxEvents
        /\ nKeys + nEvents < MaxSteps
        /\ nEvents' = nEvents + 1
        /\ path' = IF pendingQuit THEN "error.quit" ELSE "error.disconnected"
        /\ waiting' = waiting \ {c}
        /\ connected' = FALSE
        /\ ready' = FALSE
        /\ IF pendingQuit
           THEN quit' = TRUE /\ UNCHANGED bufVars
           ELSE /\ Len(lines) + 2 <= MaxLines
                /\ SetBuf(disconnected(Buf))
                /\ UNCHANGED quit
        /\ sent' = <<>>
        /\ UNCHANGED <<lastExecute, pendingQuit, sentExecute, echoDue, client, leaderActive,
                       nKeys, edVars, ackVars, frameVars, hsVars, modeVars>>

\* handleKey: the leader key arms a leader sequence.
KeyLeader ==
    /\ KeyStep
    /\ ~leaderActive
    /\ path' = "leader"
    /\ leaderActive' = TRUE
    /\ sent' = <<>>
    /\ UNCHANGED <<sessVars, connected, ready, client, waiting, quit, edVars, ackVars, frameVars,
                   hsVars, modeVars>>

\* handleKey: a key that completes no leader sequence disarms it.
LeaderOther ==
    /\ KeyStep
    /\ leaderActive
    /\ path' = "leader.unknown"
    /\ leaderActive' = FALSE
    /\ sent' = <<>>
    /\ UNCHANGED <<sessVars, connected, ready, client, waiting, quit, edVars, ackVars, frameVars,
                   hsVars, modeVars>>

\* handleKey -> reconnect.  When not connected it closes the old client before
\* it calls Connect, so m.client is from then on a client no write succeeds
\* on: the closed one when Connect fails, numbered anew here, or the new one,
\* whose reader the event loop then waits on.
reconnectKey ==
    /\ KeyStep
    /\ leaderActive
    /\ leaderActive' = FALSE
    /\ \E okConnect \in BOOLEAN :
          IF connected
          THEN /\ path' = "reconnect.already"
               /\ UNCHANGED <<client, connected, ready, waiting, ackVars>>
          ELSE /\ client < MaxConns
               /\ client' = client + 1
               /\ unacked' = [t \in Tokens |-> 0]
               /\ saveFailed' = [t \in Tokens |-> FALSE]
               /\ saveQueue' = [t \in Tokens |-> <<>>]
               /\ closeSent' = [t \in Tokens |-> 0]
               /\ IF okConnect
                  THEN /\ path' = "reconnect.connected"
                       /\ connected' = TRUE
                       /\ ready' = TRUE
                       /\ waiting' = waiting \cup {client + 1}
                  ELSE /\ path' = "reconnect.failed"
                       /\ UNCHANGED <<connected, ready, waiting>>
    /\ sent' = <<>>
    /\ UNCHANGED <<sessVars, quit, edVars, frameVars, hsVars>>

LeaderReconnect == reconnectKey /\ UNCHANGED modeVars

(***************************************************************************)
(* Part 4: editor and tracer windows (tui.go, editor.go, the editor pane). *)
(* Panes and the editor table point to EditorWindow objects, so the        *)
(* objects live in heap and are named by their index.  A callback of an    *)
(* editor pane is a closure over the Model copy of the handler that        *)
(* created the pane: it sees the editor table and the panes of the running *)
(* program (a map and a pointer), but that copy's connected, client and    *)
(* tracerCurrent.                                                          *)
(***************************************************************************)

TracerId == <<"tracer", 0>>
DebugId == <<"debug", 0>>
EditorId(t) == <<"editor", t>>

\* NewEditorWindow: fields the message lacks keep their zero value.
NewEditorWindow(args) ==
    [Token |-> IF Has(args, "token") THEN args.token ELSE 0,
     Name |-> IF Has(args, "name") THEN args.name ELSE "",
     EntityType |-> IF Has(args, "entityType") THEN args.entityType ELSE 0,
     Text |-> IF Has(args, "text") THEN args.text ELSE <<>>,
     Stop |-> IF Has(args, "stop") THEN args.stop ELSE <<>>,
     CurrentRow |-> IF Has(args, "currentRow") THEN args.currentRow ELSE 0,
     ReadOnly |-> Has(args, "readOnly") /\ args.readOnly # 0,
     Debugger |-> Has(args, "debugger") /\ args.debugger # 0,
     Modified |-> FALSE,
     PendingClose |-> FALSE,
     CursorRow |-> IF Has(args, "currentRow") THEN args.currentRow ELSE 0,
     CursorCol |-> 0]

\* EditorWindow.Update that starts from an empty record, as NewEditorWindow.
UpdateAfresh(w, args) ==
    [NewEditorWindow(args) EXCEPT !.Token = w.Token, !.CursorRow = w.CursorRow,
                                  !.CursorCol = w.CursorCol]

\* EditorWindow.Update
Update(w, args) ==
    [w EXCEPT !.Text = IF Has(args, "text") THEN args.text ELSE @,
              !.CurrentRow = IF Has(args, "currentRow") THEN args.currentRow ELSE @,
              !.Debugger = IF Has(args, "debugger") THEN args.debugger # 0 ELSE @,
              !.Stop = IF Has(args, "stop") THEN args.stop ELSE @]

\* The editor state the handlers work on.
Ed == [editors |-> editors, heap |-> heap, tracerStack |-> tracerStack,
       tracerCurrent |-> tracerCurrent, pm |-> pm]

SetEd(e) ==
    /\ editors' = e.editors
    /\ heap' = e.heap
    /\ tracerStack' = e.tracerStack
    /\ tracerCurrent' = e.tracerCurrent
    /\ pm' = e.pm

\* m.editors[t] = obj
PutEditor(eds, t, obj) == [x \in DOMAIN eds \cup {t} |-> IF x = t THEN obj ELSE eds[x]]

\* delete(m.editors, t)
DeleteEditor(eds, t) == [x \in DOMAIN eds \ {t} |-> eds[x]]

\* NewEditorPane for window object obj; cb is the Model copy
\* of the running handler, which the callbacks close over, and tok the token
\* the callbacks act on.
NewEditorPane(obj, tok, cb) ==
    [win |-> obj, editMode |-> FALSE, Focused |-> FALSE,
     cbToken |-> tok, cbConnected |-> cb.connected, cbClient |-> cb.client]

\* The content of a pane that shows no window: the debug pane, the keys pane.
NewDebugPane ==
    [win |-> 0, editMode |-> FALSE, Focused |-> FALSE,
     cbToken |-> 0, cbConnected |-> FALSE, cbClient |-> 0]

\* The Model copy a handler runs on, as far as closures read it later.
Cb == [connected |-> connected, client |-> client]

\* EditorPane.SetWindow on the tracer pane.
SetWindow(e, obj) ==
    LET w == e.heap[obj]
        moved == IF w.CurrentRow >= 0 /\ w.CurrentRow < Len(w.Text)
                 THEN [e.heap EXCEPT ![obj].CursorRow = w.CurrentRow, ![obj].CursorCol = 0]
                 ELSE e.heap
    IN  [e EXCEPT !.heap = moved,
                  !.pm.panes[TracerId].win = obj,
                  !.pm.panes[TracerId].editMode = FALSE]

isInTracerStack(e, t) == InSeq(e.tracerStack, t)

showTracer(e, t, cb) ==
    LET e1 == [e EXCEPT !.tracerCurrent = t]
    IN  IF t \notin DOMAIN e.editors THEN e1
        ELSE IF TracerId \in DOMAIN e.pm.panes THEN SetWindow(e1, e.editors[t])
        ELSE [e1 EXCEPT !.pm = Focus(Add(e.pm, TracerId,
                                         CenteredPane(NewEditorPane(e.editors[t], t, cb))),
                                     TracerId)]

removeFromTracerStack(e, t, cb) ==
    LET e1 == [e EXCEPT !.tracerStack = RemoveFirst(e.tracerStack, t)]
    IN  IF e.tracerCurrent # t THEN e1
        ELSE IF e1.tracerStack # <<>> THEN showTracer(e1, Last(e1.tracerStack), cb)
        ELSE [e1 EXCEPT !.tracerCurrent = 0, !.pm = Remove(e.pm, TracerId)]

SaveChangesMsg(t, w) == CmdFrame("SaveChanges", [win |-> t, text |-> w.Text, stop |-> w.Stop])

CloseWindowMsg(t) == CmdFrame("CloseWindow", [win |-> t])

\* saveEditor: the message it hands to send, if any.
saveEditor(e, t) ==
    IF t \in DOMAIN e.editors
    THEN << SaveChangesMsg(t, e.heap[e.editors[t]]) >>
    ELSE <<>>

\* closeEditor that forgets the window at once.
closeEditorForget(e, t) ==
    IF t \notin DOMAIN e.editors THEN [ed |-> e, msgs |-> <<>>]
    ELSE [ed |-> [e EXCEPT !.editors = DeleteEditor(e.editors, t)],
          msgs |-> << CloseWindowMsg(t) >>]

\* closeEditor: the editor state it leaves and the message it hands to send.
closeEditor(e, t) ==
    IF t \notin DOMAIN e.editors THEN [ed |-> e, msgs |-> <<>>]
    ELSE IF e.heap[e.editors[t]].Modified
    THEN [ed |-> [e EXCEPT !.heap[e.editors[t]].PendingClose = TRUE],
          msgs |-> saveEditor(e, t)]
    ELSE [ed |-> e, msgs |-> << CloseWindowMsg(t) >>]

\* A key event of a run with windows enters handleKey.
EdKeyStep ==
    /\ ~quit
    /\ ~backtickActive
    /\ ~confirmQuit
    /\ ~paneMoveMode
    /\ nKeys < MaxEdKeys
    /\ nKeys + nEvents < MaxEdSteps
    /\ nKeys' = nKeys + 1
    /\ UNCHANGED nEvents

\* The event loop takes a window message of the current connection's reader.
EdRideStep ==
    /\ ~quit
    /\ nEvents < MaxEdEvents
    /\ nKeys + nEvents < MaxEdSteps
    /\ client \in waiting
    /\ nEvents' = nEvents + 1
    /\ UNCHANGED nKeys

\* The SaveChanges among msgs that name window t.
Saves(msgs, t) ==
    Cardinality({ i \in 1..Len(msgs) : msgs[i].cmd = "SaveChanges" /\ msgs[i].args.win = t })

\* The text and stop list of each SaveChanges among msgs that names window t.
SavedBy(msgs, t) ==
    LET keep(m) == m.cmd = "SaveChanges" /\ m.args.win = t
        ms == SelectSeq(msgs, keep)
    IN  [i \in 1..Len(ms) |-> [text |-> ms[i].args.text, stop |-> ms[i].args.stop]]

\* The number of CloseWindow messages among msgs that name window t.
Closes(msgs, t) == Cardinality({ i \in 1..Len(msgs) : msgs[i] = CloseWindowMsg(t) })

\* What a write of msgs does to the record of unanswered saves.
Written(msgs) ==
    /\ \A t \in Tokens : unacked[t] + Saves(msgs, t) <= MaxUnacked
    /\ sent' = msgs
    /\ unacked' = [t \in Tokens |-> unacked[t] + Saves(msgs, t)]
    /\ saveQueue' = [t \in Tokens |-> saveQueue[t] \o SavedBy(msgs, t)]
    /\ closeSent' = [t \in Tokens |-> closeSent[t] + Closes(msgs, t)]
    /\ UNCHANGED saveFailed

NotWritten ==
    /\ sent' = <<>>
    /\ UNCHANGED ackVars

\* An OpenWindow or CloseWindow of the interpreter for window t: nothing is
\* written, and what the client asked about the token's earlier window is over.
WindowEvent(t) ==
    /\ sent' = <<>>
    /\ closeSent' = [closeSent EXCEPT ![t] = 0]
    /\ UNCHANGED <<unacked, saveFailed, saveQueue>>

\* m.send of the running program, for the messages a handler hands to it.
MainSend(msgs, ok) ==
    LET how == IF msgs = <<>> THEN "none" ELSE send(connected, ok)
    IN  /\ IF how = "written" THEN Written(msgs) ELSE NotWritten
        /\ connected' = IF how = "failed" THEN FALSE ELSE connected
        /\ ready' = IF how = "failed" THEN FALSE ELSE ready

\* handleRide, case "OpenWindow".
openWindow(e, args, cb) ==
    LET w == NewEditorWindow(args)
        obj == Len(e.heap) + 1
        e1 == [e EXCEPT !.heap = Append(e.heap, w),
                        !.editors = PutEditor(e.editors, w.Token, obj)]
    IN  IF w.Debugger
        THEN showTracer([e1 EXCEPT !.tracerStack = Append(e.tracerStack, w.Token)],
                        w.Token, cb)
        ELSE [e1 EXCEPT !.pm = Focus(Add(e.pm, EditorId(w.Token),
                                         CenteredPane(NewEditorPane(obj, w.Token, cb))),
                                     EditorId(w.Token))]

\* The text of a window as the interpreter sends it.
WindowText == << << "a" >> >>

OpenArgs ==
    { [token |-> t, debugger |-> d, readOnly |-> r, text |-> WindowText, currentRow |-> 0] :
        t \in Tokens, d \in {0, 1}, r \in {0, 1} }

RideOpenWindow ==
    \E args \in OpenArgs :
        /\ EdRideStep
        /\ Len(heap) < MaxWindows
        /\ SetEd(openWindow(Ed, args, Cb))
        /\ path' = "openWindow"
        /\ WindowEvent(args.token)
        /\ UNCHANGED <<sessVars, connVars, frameVars, hsVars, modeVars>>

UpdateArgs ==
    { [token |-> t, debugger |-> d] : t \in Tokens, d \in {0, 1} }
    \cup { [token |-> t, text |-> << << "b" >> >>, currentRow |-> 0] : t \in Tokens }

\* handleRide, case "UpdateWindow".
RideUpdateWindow ==
    \E args \in UpdateArgs :
        /\ EdRideStep
        /\ IF args.token \in DOMAIN editors
           THEN /\ heap' = [heap EXCEPT ![editors[args.token]] = Update(@, args)]
                /\ path' = "updateWindow"
           ELSE /\ path' = "updateWindow.unknown"
                /\ UNCHANGED heap
        /\ NotWritten
        /\ UNCHANGED <<editors, tracerStack, tracerCurrent, pm, sessVars, connVars,
                       frameVars, hsVars, modeVars>>

\* handleRide, case "CloseWindow", for window t.
closeWindow(e, t, cb) ==
    LET e1 == IF isInTracerStack(e, t)
              THEN removeFromTracerStack(e, t, cb)
              ELSE [e EXCEPT !.pm = Remove(e.pm, EditorId(t))]
    IN  [e1 EXCEPT !.editors = DeleteEditor(e1.editors, t)]

CloseWindowEvent(t) ==
    /\ EdRideStep
    /\ SetEd(closeWindow(Ed, t, Cb))
    /\ path' = IF t \in DOMAIN editors THEN "closeWindow" ELSE "closeWindow.unknown"
    /\ WindowEvent(t)
    /\ UNCHANGED <<sessVars, connVars, frameVars, hsVars, modeVars>>

RideCloseWindow == \E t \in Tokens : CloseWindowEvent(t)

\* A ReplySaveChanges case that takes every reply for a success.
replySaveChangesAnyErr(e, t, err) ==
    IF t \notin DOMAIN e.editors THEN [ed |-> e, msgs |-> <<>>]
    ELSE LET obj == e.editors[t]
         IN  [ed |-> [e EXCEPT !.heap[obj].Modified = FALSE,
                               !.heap[obj].PendingClose = FALSE],
              msgs |-> IF e.heap[obj].PendingClose
                       THEN << CloseWindowMsg(t) >> ELSE <<>>]

\* handleRide, case "ReplySaveChanges": the window objects it leaves and the
\* message it hands to send.
replySaveChanges(e, t, err) ==
    IF t \notin DOMAIN e.editors THEN [ed |-> e, msgs |-> <<>>]
    ELSE LET obj == e.editors[t]
         IN  IF err = 0
             THEN [ed |-> [e EXCEPT !.heap[obj].Modified = FALSE,
                                    !.heap[obj].PendingClose = FALSE],
                   msgs |-> IF e.heap[obj].PendingClose
                            THEN << CloseWindowMsg(t) >> ELSE <<>>]
             ELSE [ed |-> [e EXCEPT !.heap[obj].PendingClose = FALSE], msgs |-> <<>>]

\* The interpreter answers a SaveChanges it received for window t.
ReplyEvent(t, err, ok) ==
    /\ EdRideStep
    /\ unacked[t] > 0
    /\ LET r == replySaveChanges(Ed, t, err)
           how == IF r.msgs = <<>> THEN "none" ELSE send(connected, ok)
       IN  /\ SetEd(r.ed)
           /\ sent' = IF how = "written" THEN r.msgs ELSE <<>>
           /\ connected' = IF how = "failed" THEN FALSE ELSE connected
           /\ ready' = IF how = "failed" THEN FALSE ELSE ready
    /\ unacked' = [unacked EXCEPT ![t] = @ - 1]
    /\ saveFailed' = [saveFailed EXCEPT ![t] = (err # 0)]
    /\ saveQueue' = [saveQueue EXCEPT ![t] = Tail(@)]
    /\ closeSent' = [closeSent EXCEPT ![t] = @ + Closes(sent', t)]
    /\ path' = IF err = 0 THEN "replySaveChanges.ok" ELSE "replySaveChanges.failed"
    /\ UNCHANGED <<sessVars, client, waiting, quit, leaderActive, frameVars, hsVars, modeVars>>

RideReplySaveChanges ==
    \E t \in Tokens, err \in {0, 1}, ok \in BOOLEAN : ReplyEvent(t, err, ok)

\* handleRide, case "WindowTypeChanged".
RideWindowTypeChanged ==
    \E t \in Tokens, tracer \in {0, 1} :
        /\ EdRideStep
        /\ IF t \in DOMAIN editors
           THEN /\ heap' = [heap EXCEPT ![editors[t]].Debugger = (tracer # 0)]
                /\ path' = "windowTypeChanged"
           ELSE /\ path' = "windowTypeChanged.unknown"
                /\ UNCHANGED heap
        /\ NotWritten
        /\ UNCHANGED <<editors, tracerStack, tracerCurrent, pm, sessVars, connVars,
                       frameVars, hsVars, modeVars>>

\* handleKey, ClosePane (Escape): the pane in focus says what closes.  The
\* editor pane never sees Escape, which handleKey takes first.
KeyEsc ==
    /\ EdKeyStep
    /\ ~leaderActive
    /\ LET fp == FocusedPane(pm)
           tok == IF fp = TracerId THEN tracerCurrent ELSE fp[2]
       IN  IF fp = NoPane \/ (fp = TracerId /\ tracerCurrent = 0)
           THEN /\ path' = "esc.none"
                /\ NotWritten
                /\ UNCHANGED <<edVars, connected, ready>>
           ELSE IF fp[1] \in {"tracer", "editor"}
           THEN /\ path' = "esc.closeEditor"
                /\ SetEd(closeEditor(Ed, tok).ed)
                /\ \E ok \in BOOLEAN : MainSend(closeEditor(Ed, tok).msgs, ok)
           ELSE /\ path' = "esc.removePane"
                /\ pm' = Remove(pm, fp)
                /\ NotWritten
                /\ UNCHANGED <<editors, heap, tracerStack, tracerCurrent, connected, ready>>
    /\ UNCHANGED <<sessVars, client, waiting, quit, leaderActive, frameVars, hsVars, modeVars>>

\* handleKey, CyclePane (Tab).
KeyTab ==
    /\ EdKeyStep
    /\ ~leaderActive
    /\ path' = "tab"
    /\ pm' = IF HasPanes(pm) THEN FocusNext(pm) ELSE pm
    /\ NotWritten
    /\ UNCHANGED <<editors, heap, tracerStack, tracerCurrent, sessVars, connVars, frameVars,
                   hsVars, modeVars>>

\* toggleDebugPane
toggleDebugPane(m) ==
    IF DebugId \in DOMAIN m.panes THEN Remove(m, DebugId)
    ELSE LET paneH == Max(height - 1 - 2 - 2, 10)
             paneX == Max(width - 50 - 2, 0)
         IN  Focus(Add(m, DebugId, NewPane(NewDebugPane, paneX, 1, 50, paneH)), DebugId)

\* handleKey, leader sequence ToggleDebug.
LeaderDebug ==
    /\ EdKeyStep
    /\ leaderActive
    /\ leaderActive' = FALSE
    /\ path' = "toggleDebug"
    /\ pm' = toggleDebugPane(pm)
    /\ NotWritten
    /\ UNCHANGED <<editors, heap, tracerStack, tracerCurrent, sessVars, connected, ready,
                   client, waiting, quit, frameVars, hsVars, modeVars>>

\* EditorPane.insertChar
winInsertChar(w, r) ==
    LET runes == w.Text[w.CursorRow + 1]
        col == Min(w.CursorCol, Len(runes))
    IN  [w EXCEPT !.Text[w.CursorRow + 1] = Take(runes, col) \o << r >> \o Drop(runes, col),
                  !.CursorCol = w.CursorCol + 1,
                  !.Modified = TRUE]

\* EditorPane.deleteCharBack, within a line.
winDeleteCharBack(w) ==
    IF w.CursorCol > 0
    THEN LET runes == w.Text[w.CursorRow + 1]
         IN  [w EXCEPT !.Text[w.CursorRow + 1] =
                           Take(runes, w.CursorCol - 1) \o Drop(runes, w.CursorCol),
                       !.CursorCol = w.CursorCol - 1,
                       !.Modified = TRUE]
    ELSE w

\* EditorPane.cursorRight, within a line.
winCursorRight(w) ==
    IF w.CursorCol < Len(w.Text[w.CursorRow + 1])
    THEN [w EXCEPT !.CursorCol = w.CursorCol + 1] ELSE w

\* The keys an editor pane is given: runes, Backspace, Right, Ctrl+S.
PaneKeys == { RunesEv(<< "x" >>), RunesEv(<< "e" >>), KeyEv("backspace"), KeyEv("right"),
              KeyEv("ctrl+s") }

\* The tracer key that enters edit mode (tracer_keys.edit_mode).
EditModeKey == "e"

\* A HandleKey without the tracer and read-only branches: every window is
\* edited as a plain editor window is.
HandleKeyEditable(p, w, k) ==
    [pane |-> p,
     win |-> CASE k.text = "runes" -> winInsertChar(w, k.args.runes[1])
               [] k.text = "backspace" -> winDeleteCharBack(w)
               [] k.text = "right" -> winCursorRight(w)
               [] OTHER -> w,
     save |-> k.text = "ctrl+s"]

\* EditorPane.HandleKey: the pane and its window afterwards, and whether
\* the key called onSave.
HandleKey(p, w, k) ==
    IF w.Debugger /\ ~p.editMode
    THEN [pane |-> IF k.text = "runes" /\ k.args.runes = << EditModeKey >>
                   THEN [p EXCEPT !.editMode = TRUE] ELSE p,
          win |-> IF k.text = "right" THEN winCursorRight(w) ELSE w,
          save |-> FALSE]
    ELSE IF w.ReadOnly /\ ~p.editMode
    THEN [pane |-> p, win |-> IF k.text = "right" THEN winCursorRight(w) ELSE w,
          save |-> FALSE]
    ELSE [pane |-> p,
          win |-> CASE k.text = "runes" -> winInsertChar(w, k.args.runes[1])
                    [] k.text = "backspace" -> winDeleteCharBack(w)
                    [] k.text = "right" -> winCursorRight(w)
                    [] OTHER -> w,
          save |-> k.text = "ctrl+s"]

\* m.send of the Model copy the callbacks of pane p closed over: it is refused
\* when that copy is not connected; it writes to that copy's client, which
\* fails once reconnect has closed it.
CallbackSend(p, ok) ==
    IF ~p.cbConnected THEN "refused"
    ELSE IF p.cbClient = client /\ ok THEN "written"
    ELSE "failed"

\* handleKey routes the key to the pane in focus, which consumes it.
PaneKey ==
    \E k \in PaneKeys, ok \in BOOLEAN :
        /\ EdKeyStep
        /\ ~leaderActive
        /\ FocusedPane(pm) # NoPane
        /\ LET id == FocusedPane(pm)
               p == pm.panes[id]
           IN  IF p.win = 0
               THEN /\ path' = "paneKey.debug"
                    /\ NotWritten
                    /\ UNCHANGED <<heap, pm>>
               ELSE LET r == HandleKey(p, heap[p.win], k)
                        msgs == IF r.save THEN saveEditor(Ed, p.cbToken) ELSE <<>>
                        how == IF msgs = <<>> THEN "none" ELSE CallbackSend(p, ok)
                    IN  /\ Len(r.win.Text[r.win.CursorRow + 1]) <= MaxWinLineLen
                        /\ path' = IF r.save THEN "paneKey.save" ELSE "paneKey.editor"
                        /\ heap' = [heap EXCEPT ![p.win] = r.win]
                        /\ pm' = [pm EXCEPT !.panes[id] =
                                     [r.pane EXCEPT !.cbConnected =
                                         IF how = "failed" THEN FALSE ELSE @]]
                        /\ IF how = "written" THEN Written(msgs) ELSE NotWritten
        /\ UNCHANGED <<editors, tracerStack, tracerCurrent, sessVars, connVars, frameVars,
                       hsVars, modeVars>>

(***************************************************************************)
(* Part 5: panes on the screen (tui.go: Update, handleMouse, the pane-move *)
(* mode of handleKey, toggleKeysPane).                                     *)
(***************************************************************************)

KeysId == <<"keys", 0>>

\* A mouse or resize event enters Update.
UiStep ==
    /\ ~quit
    /\ nEvents < MaxEdEvents
    /\ nKeys + nEvents < MaxEdSteps
    /\ nEvents' = nEvents + 1
    /\ UNCHANGED nKeys

\* The terminal sizes a WindowSizeMsg reports.
ScreenSizes == { <<80, 24>>, <<20, 6>>, <<120, 40>> }

\* Update, case tea.WindowSizeMsg.
Resize ==
    \E sz \in ScreenSizes :
        /\ UiStep
        /\ width' = sz[1]
        /\ height' = sz[2]
        /\ pm' = UpdateSize(pm, sz[1], sz[2])
        /\ path' = "resize"
        /\ NotWritten
        /\ UNCHANGED <<editors, heap, tracerStack, tracerCurrent, paneMoveMode, confirmQuit,
                       overlayVars, svcVars, sessVars, connVars, frameVars, hsVars>>

\* Cells of pane p that a pointer may be on: its corners, a cell on each edge,
\* a cell of the content.
PanePoints(p) ==
    { <<p.X, p.Y>>, <<p.X + p.Width - 1, p.Y>>, <<p.X, p.Y + p.Height - 1>>,
      <<p.X + p.Width - 1, p.Y + p.Height - 1>>, <<p.X + 1, p.Y>>,
      <<p.X + 1, p.Y + p.Height - 1>>, <<p.X, p.Y + 1>>, <<p.X + p.Width - 1, p.Y + 1>>,
      <<p.X + 6, p.Y + 1>> }

\* The cells the pointer is on in a mouse event: a coarse grid and the cells
\* of the panes on screen; the terminal reports no negative coordinate.
MousePoints ==
    { pt \in ({0, 12, 40, 79} \X {0, 2, 12, 23})
             \cup UNION { PanePoints(pm.panes[i]) : i \in DOMAIN pm.panes } :
        pt[1] >= 0 /\ pt[2] >= 0 }

MouseTypes == {"Left", "Motion", "Release", "WheelUp", "WheelDown"}

\* The position in zOrder of the first pane that is being dragged, 0 for none.
FirstDragging(m) ==
    LET ds == { i \in 1..Len(m.zOrder) :
                  m.zOrder[i] \in DOMAIN m.panes /\ m.panes[m.zOrder[i]].dragging }
    IN  IF ds = {} THEN 0 ELSE CHOOSE i \in ds : \A j \in ds : i <= j

\* EditorPane.HandleMouse, left press at (x, y) of the content area, for a
\* pane that was not scrolled.
winClick(w, x, y) ==
    IF y >= 0 /\ y < Len(w.Text)
    THEN [w EXCEPT !.CursorRow = y,
                   !.CursorCol = clamp(x - 5, 0, Len(w.Text[y + 1]))]
    ELSE w

\* handleMouse, left press on pane id.
mouseLeftOnPane(id, x, y) ==
    LET p == pm.panes[id]
        zone == HitZone(p, x, y)
    IN  IF zone = "Content"
        THEN /\ pm' = Focus(pm, id)
             /\ heap' = IF p.win # 0
                        THEN [heap EXCEPT ![p.win] = winClick(@, x - p.X - 1, y - p.Y - 1)]
                        ELSE heap
        ELSE /\ pm' = [Focus(pm, id) EXCEPT
                          !.panes[id] = StartDrag(@, zoneToDragMode(zone), x, y)]
             /\ UNCHANGED heap

\* handleMouse, for an event of type ty with the pointer on cell pt.
MouseAt(ty, pt) ==
    LET x == pt[1]
        y == pt[2]
        d == FirstDragging(pm)
        at == PaneAt(pm, x, y)
        fp == FocusedPane(pm)
    IN  /\ UiStep
        /\ path' = "mouse"
        /\ NotWritten
        /\ IF ty \in {"Motion", "Release"} /\ d # 0
           THEN /\ pm' = [pm EXCEPT !.panes[pm.zOrder[d]] =
                             IF ty = "Motion"
                             THEN UpdateDrag(@, x, y, pm.screenW, pm.screenH)
                             ELSE StopDrag(@)]
                /\ UNCHANGED <<heap, bufVars>>
           ELSE IF ty = "Left"
           THEN /\ IF at # NoPane THEN mouseLeftOnPane(at, x, y)
                   ELSE /\ pm' = IF fp # NoPane
                                 THEN [pm EXCEPT !.panes[fp].Focused = FALSE,
                                                 !.focusedID = NoPane]
                                 ELSE pm
                        /\ UNCHANGED heap
                /\ UNCHANGED bufVars
           ELSE IF ty \in {"WheelUp", "WheelDown"} /\ at = NoPane
           THEN /\ SetBuf(clampCol([Buf EXCEPT !.row =
                             IF ty = "WheelUp" THEN Max(cursorRow - 3, 0)
                             ELSE Min(cursorRow + 3, Len(lines) - 1)]))
                /\ UNCHANGED <<pm, heap>>
           ELSE UNCHANGED <<pm, heap, bufVars>>
        /\ UNCHANGED <<editors, tracerStack, tracerCurrent, lastExecute, pendingQuit,
                       sentExecute, echoDue, connVars, modeVars, frameVars, hsVars>>

Mouse == \E ty \in MouseTypes, pt \in MousePoints : MouseAt(ty, pt)

\* Cells of the screen the pointer may be on: those of MousePoints that are
\* inside the terminal, and the ends of its last column.
ScreenPoints ==
    { pt \in MousePoints \cup { <<pm.screenW - 1, 0>>, <<pm.screenW - 1, pm.screenH - 1>> } :
        /\ pt[1] >= 0 /\ pt[1] < pm.screenW
        /\ pt[2] >= 0 /\ pt[2] < pm.screenH }

\* handleMouse with the pointer inside the terminal.
MouseOnScreen == \E ty \in MouseTypes, pt \in ScreenPoints : MouseAt(ty, pt)

\* toggleKeysPane
toggleKeysPane(m) ==
    IF KeysId \in DOMAIN m.panes THEN Remove(m, KeysId)
    ELSE Focus(Add(m, KeysId, NewPane(NewDebugPane, Max(Quot(width - 40, 2), 0),
                                      Max(Quot(height - 25, 2), 0), 40, 25)),
               KeysId)

\* handleKey, leader sequence ShowKeys.
LeaderKeys ==
    /\ EdKeyStep
    /\ leaderActive
    /\ leaderActive' = FALSE
    /\ path' = "toggleKeys"
    /\ pm' = toggleKeysPane(pm)
    /\ NotWritten
    /\ UNCHANGED <<editors, heap, tracerStack, tracerCurrent, sessVars, connected, ready,
                   client, waiting, quit, frameVars, hsVars, modeVars>>

\* handleKey, leader sequence PaneMoveMode.
LeaderMoveMode ==
    /\ EdKeyStep
    /\ leaderActive
    /\ leaderActive' = FALSE
    /\ path' = "paneMoveMode"
    /\ paneMoveMode' = (FocusedPane(pm) # NoPane)
    /\ NotWritten
    /\ UNCHANGED <<edVars, sessVars, connected, ready, client, waiting, quit, width, height,
                   confirmQuit, overlayVars, svcVars, frameVars, hsVars>>

MoveKeys == {"esc", "enter", "up", "shift+up", "down", "shift+down", "left", "shift+left",
             "right", "shift+right", "x"}

\* The pane-move mode of handleKey, for the focused pane p and key k.
movePane(p, k) ==
    CASE k = "up" -> [p EXCEPT !.Y = Max(0, p.Y - 1)]
      [] k = "shift+up" -> [p EXCEPT !.Height = Max(5, p.Height - 1)]
      [] k = "down" -> [p EXCEPT !.Y = Min(height - p.Height - 1, p.Y + 1)]
      [] k = "shift+down" -> [p EXCEPT !.Height = Min(height - 2, p.Height + 1)]
      [] k = "left" -> [p EXCEPT !.X = Max(0, p.X - 1)]
      [] k = "shift+left" -> [p EXCEPT !.Width = Max(10, p.Width - 1)]
      [] k = "right" -> [p EXCEPT !.X = Min(width - p.Width - 1, p.X + 1)]
      [] k = "shift+right" -> [p EXCEPT !.Width = Min(width - 2, p.Width + 1)]
      [] OTHER -> p

\* handleKey while m.paneMoveMode is set.
MoveModeKey ==
    \E k \in MoveKeys :
        /\ ~quit
        /\ ~backtickActive
        /\ ~confirmQuit
        /\ paneMoveMode
        /\ nKeys < MaxEdKeys
        /\ nKeys + nEvents < MaxEdSteps
        /\ nKeys' = nKeys + 1
        /\ UNCHANGED nEvents
        /\ path' = "moveKey"
        /\ NotWritten
        /\ IF FocusedPane(pm) = NoPane \/ k \in {"esc", "enter"}
           THEN paneMoveMode' = FALSE /\ UNCHANGED pm
           ELSE /\ pm' = [pm EXCEPT !.panes[FocusedPane(pm)] = movePane(@, k)]
                /\ UNCHANGED paneMoveMode
        /\ UNCHANGED <<editors, heap, tracerStack, tracerCurrent, sessVars, connVars, width,
                       height, confirmQuit, overlayVars, svcVars, frameVars, hsVars>>

(***************************************************************************)
(* Specifications.                                                         *)
(***************************************************************************)

\* The framing functions on one stream.
NextFrame == FrameSend \/ FrameRecv

SpecFrame == Init /\ [][NextFrame]_vars

\* One run of Connect against an arbitrary peer.
NextHs ==
    \/ HsRecvSupported
    \/ HsSendProtocols
    \/ HsRecvUsing
    \/ HsSendIdentify
    \/ HsWaitReady
    \/ HsRecvError

SpecHs == Init /\ [][NextHs]_vars

\* The session: keys with no pane focused, and the interpreter's messages.
NextSession ==
    \/ SessionEnter
    \/ SessionEdit
    \/ RideAppendSessionOutput
    \/ RideSetPromptType
    \/ RideRaw
    \/ Disconnect
    \/ KeyLeader
    \/ LeaderOther
    \/ LeaderReconnect

SpecSession == Init /\ [][NextSession]_vars

\* Editor and tracer windows: the window messages, the keys that go to panes,
\* disconnects and reconnects.
NextEditor ==
    \/ RideOpenWindow
    \/ RideUpdateWindow
    \/ RideCloseWindow
    \/ RideReplySaveChanges
    \/ RideWindowTypeChanged
    \/ KeyEsc
    \/ KeyTab
    \/ PaneKey
    \/ LeaderDebug
    \/ KeyLeader
    \/ LeaderOther
    \/ LeaderReconnect
    \/ Disconnect

SpecEditor == Init /\ [][NextEditor]_vars

\* Panes on the screen: windows opened and closed by the interpreter, the
\* panes the user toggles, the pointer, the pane-move mode and resizes.
(***************************************************************************)
(* Part 6: what ends the event loop (tui.go: handleKey, handleRide).       *)
(* A frame is seen here by the kinds of its arguments only: handleRide     *)
(* reads the window arguments with msg.Args[k].(float64), which panics     *)
(* when the argument is missing or is no JSON number.                      *)
(***************************************************************************)

ArgKinds == {"number", "string"}

\* The arguments each case of handleRide reads with an unchecked assertion.
UncheckedArgs(cmd) ==
    CASE cmd = "UpdateWindow" -> {"token"}
      [] cmd = "CloseWindow" -> {"win"}
      [] cmd = "ReplySaveChanges" -> {"win"}
      [] cmd = "SetHighlightLine" -> {"win", "line"}
      [] cmd = "WindowTypeChanged" -> {"win", "tracer"}
      [] OTHER -> {}

\* Commands handleRide has a case for, and two it has none for.
KnownCmds ==
    {"AppendSessionOutput", "SetPromptType", "OpenWindow", "UpdateWindow", "CloseWindow",
     "ReplySaveChanges", "SetHighlightLine", "WindowTypeChanged"}
OtherCmds == {"HadError", "FocusChanged"}

\* Frames of the known commands: each argument absent, a number or a string.
KindFrames ==
    UNION { { [cmd |-> c, args |-> a] :
                a \in UNION { [ks -> ArgKinds] : ks \in SUBSET UncheckedArgs(c) } } :
            c \in KnownCmds }

\* msg.Args[k].(float64) fails for some argument the case of cmd reads.
panics(cmd, args) ==
    \E k \in UncheckedArgs(cmd) : IF Has(args, k) THEN args[k] # "number" ELSE TRUE

\* handleRide on a frame whose case panics: Update never returns.
RidePanic ==
    \E f \in KindFrames :
        /\ RideStep
        /\ panics(f.cmd, f.args)
        /\ quit' = TRUE
        /\ path' = "ride.panic"
        /\ sent' = <<>>
        /\ UNCHANGED <<sessVars, connected, ready, client, waiting, leaderActive, edVars,
                       ackVars, frameVars, hsVars, modeVars>>

\* handleRide on a command the switch has no case for: logged, nothing else.
RideOther ==
    \E c \in OtherCmds :
        /\ RideStep
        /\ path' = "ride.other"
        /\ sent' = <<>>
        /\ UNCHANGED <<sessVars, connVars, edVars, ackVars, frameVars, hsVars, modeVars>>

\* handleKey: the leader sequence for Quit asks for confirmation.
LeaderQuit ==
    /\ KeyStep
    /\ leaderActive
    /\ leaderActive' = FALSE
    /\ confirmQuit' = TRUE
    /\ path' = "leader.quit"
    /\ sent' = <<>>
    /\ UNCHANGED <<sessVars, connected, ready, client, waiting, quit, edVars, ackVars,
                   frameVars, hsVars, width, height, paneMoveMode, overlayVars, svcVars>>

ConfirmKeys == {"y", "Y", "n", "enter", "leader"}

\* handleKey with confirmQuit set: y or Y quits, any other key cancels.
ConfirmKey ==
    \E k \in ConfirmKeys :
        /\ ~quit
        /\ ~backtickActive
        /\ confirmQuit
        /\ nKeys < MaxKeys
        /\ nKeys + nEvents < MaxSteps
        /\ nKeys' = nKeys + 1
        /\ confirmQuit' = FALSE
        /\ quit' = (k \in {"y", "Y"})
        /\ path' = IF k \in {"y", "Y"} THEN "quit.confirmed" ELSE "quit.cancelled"
        /\ sent' = <<>>
        /\ UNCHANGED <<sessVars, connected, ready, client, waiting, leaderActive, edVars,
                       ackVars, frameVars, hsVars, width, height, paneMoveMode, overlayVars, svcVars,
                       nEvents>>

\* handleKey: the backtick key, when backtick mode is not active, arms it and
\* returns; this comes before every other mode is looked at.
BacktickPrefix ==
    /\ ~quit
    /\ ~backtickActive
    /\ nKeys < MaxKeys
    /\ nKeys + nEvents < MaxSteps
    /\ nKeys' = nKeys + 1
    /\ backtickActive' = TRUE
    /\ path' = "backtick.armed"
    /\ sent' = <<>>
    /\ UNCHANGED <<sessVars, connVars, edVars, ackVars, frameVars, hsVars, width, height,
                   paneMoveMode, confirmQuit, autocomplete, svcVars, nEvents>>

\* The keys told apart after the backtick: a rune of backtickMap, a rune that
\* is not in it, and a key without runes.
BacktickKeys == {"a", "D", "enter"}

\* What handleKey inserts for the key after the backtick.
backtickInsert(b, k) ==
    CASE k = "a" -> insertChar(b, "alpha")
      [] k = "D" -> insertChar(insertChar(b, "backtick"), "D")
      [] OTHER -> insertChar(b, "backtick")

\* handleKey with backtickActive set.
BacktickKey ==
    \E k \in BacktickKeys :
        /\ ~quit
        /\ backtickActive
        /\ nKeys < MaxKeys
        /\ nKeys + nEvents < MaxSteps
        /\ nKeys' = nKeys + 1
        /\ backtickActive' = FALSE
        /\ Len(currentLine(backtickInsert(Buf, k))) <= MaxLineLen
        /\ SetBuf(backtickInsert(Buf, k))
        /\ path' = "backtick.insert"
        /\ sent' = <<>>
        /\ UNCHANGED <<lastExecute, pendingQuit, sentExecute, echoDue, connVars, edVars, ackVars,
                       frameVars, hsVars, width, height, paneMoveMode, confirmQuit, autocomplete,
                       svcVars, nEvents>>

NextKeys ==
    \/ KeyLeader
    \/ LeaderOther
    \/ LeaderQuit
    \/ ConfirmKey
    \/ BacktickPrefix
    \/ BacktickKey
    \/ SessionEdit

SpecKeys == Init /\ [][NextKeys]_vars

\* Frames, well formed or not, keys of the session, the quit dialogue and
\* disconnects.
NextProto ==
    \/ RideAppendSessionOutput
    \/ RideSetPromptType
    \/ RideRaw
    \/ RideOther
    \/ RidePanic
    \/ Disconnect
    \/ SessionEnter
    \/ SessionEdit
    \/ KeyLeader
    \/ LeaderQuit
    \/ ConfirmKey

SpecProto == Init /\ [][NextProto]_vars

(***************************************************************************)
(* Part 7: breakpoints of a window (editor.go).  The stop list of a window *)
(* is the list the interpreter sent, changed by ToggleStop.                *)
(***************************************************************************)

\* Largest line number in a stop list.
MaxStopLine == 1
\* Most entries of a stop list the interpreter sends.
MaxStops == 2

StopLines == 0..MaxStopLine
StopLists == UNION { [1..n -> StopLines] : n \in 0..MaxStops }

\* EditorWindow.HasStop
HasStop(w, line) == InSeq(w.Stop, line)

\* EditorWindow.ToggleStop: the first entry equal to line is removed, or line
\* is appended when there is none.
ToggleStop(w, line) ==
    IF HasStop(w, line)
    THEN [w EXCEPT !.Stop = RemoveFirst(@, line), !.Modified = TRUE]
    ELSE [w EXCEPT !.Stop = Append(@, line), !.Modified = TRUE]

StopOpenArgs ==
    { [token |-> t, debugger |-> 0, readOnly |-> 0, text |-> WindowText, currentRow |-> 0,
       stop |-> st] : t \in Tokens, st \in StopLists }

\* handleRide, case "OpenWindow", for messages that carry a stop list.
RideOpenWindowStops ==
    \E args \in StopOpenArgs :
        /\ EdRideStep
        /\ Len(heap) < MaxWindows
        /\ SetEd(openWindow(Ed, args, Cb))
        /\ path' = "openWindow"
        /\ WindowEvent(args.token)
        /\ UNCHANGED <<sessVars, connVars, frameVars, hsVars, modeVars>>

\* The breakpoint toggle of the leader sequences: ToggleStop on the current
\* line of the window of the pane in focus.
ToggleBreakpoint ==
    /\ EdKeyStep
    /\ leaderActive
    /\ leaderActive' = FALSE
    /\ FocusedPane(pm) # NoPane
    /\ pm.panes[FocusedPane(pm)].win # 0
    /\ LET obj == pm.panes[FocusedPane(pm)].win
       IN  heap' = [heap EXCEPT ![obj] = ToggleStop(@, @.CursorRow)]
    /\ path' = "leader.breakpoint"
    /\ NotWritten
    /\ UNCHANGED <<editors, tracerStack, tracerCurrent, pm, sessVars, connected, ready, client,
                   waiting, quit, frameVars, hsVars, modeVars>>

\* OpenWindow with every field of the record given.
NamedOpenArgs ==
    { [token |-> t, name |-> "f", entityType |-> 1, debugger |-> d, readOnly |-> 1 - d,
       text |-> WindowText, currentRow |-> 0, stop |-> << 0 >>] : t \in Tokens, d \in {0, 1} }

RideOpenWindowNamed ==
    \E args \in NamedOpenArgs :
        /\ EdRideStep
        /\ Len(heap) < MaxWindows
        /\ SetEd(openWindow(Ed, args, Cb))
        /\ path' = "openWindow"
        /\ WindowEvent(args.token)
        /\ UNCHANGED <<sessVars, connVars, frameVars, hsVars, modeVars>>

UpdateFields == {"text", "currentRow", "debugger", "stop"}

\* The value an UpdateWindow of the model carries for a field.
UpdateValue(f) ==
    CASE f = "text" -> << << "b" >> >>
      [] f = "currentRow" -> 1
      [] f = "debugger" -> 1
      [] OTHER -> << 1 >>

\* UpdateWindow messages with any of the four fields, the others left out.
UpdateFieldArgs ==
    { [f \in {"token"} \cup fs |-> IF f = "token" THEN t ELSE UpdateValue(f)] :
        t \in Tokens, fs \in SUBSET UpdateFields }

\* handleRide, case "UpdateWindow".
UpdateWindowEvent(args) ==
    /\ EdRideStep
    /\ IF args.token \in DOMAIN editors
       THEN /\ heap' = [heap EXCEPT ![editors[args.token]] = Update(@, args)]
            /\ path' = "updateWindow"
       ELSE /\ path' = "updateWindow.unknown"
            /\ UNCHANGED heap
    /\ NotWritten
    /\ UNCHANGED <<editors, tracerStack, tracerCurrent, pm, sessVars, connVars,
                   frameVars, hsVars, modeVars>>

RideUpdateWindowFields == \E args \in UpdateFieldArgs : UpdateWindowEvent(args)

NextUpdate ==
    \/ RideOpenWindowNamed
    \/ RideUpdateWindowFields
    \/ PaneKey
    \/ KeyEsc

SpecUpdate == Init /\ [][NextUpdate]_vars

NextStops ==
    \/ RideOpenWindowStops
    \/ RideCloseWindow
    \/ KeyLeader
    \/ ToggleBreakpoint
    \/ PaneKey

SpecStops == Init /\ [][NextStops]_vars

(***************************************************************************)
(* Part 8: the completion popup of the session.  Its state and selection   *)
(* are in the source (Autocomplete); the handler of ReplyGetAutocomplete   *)
(* and the keys of the popup are not, and follow the description of the    *)
(* autocomplete overlay: no option dismisses the popup, one option         *)
(* replaces the skip runes before the caret, more open the popup.  While   *)
(* the popup is open the session takes no key; Escape stands for the keys  *)
(* that cancel it.                                                         *)
(***************************************************************************)

\* Most runes a reply asks to replace.
MaxSkip == 2

\* NewAutocomplete
NewAutocomplete(options, skip, token, triggerCol) ==
    [open |-> TRUE, Options |-> options, Selected |-> 0, Skip |-> skip, Token |-> token,
     TriggerCol |-> triggerCol]

\* A CycleNext that stops at the last option.
CycleNextStop(a) ==
    IF Len(a.Options) = 0 THEN a
    ELSE [a EXCEPT !.Selected = IF @ + 1 >= Len(a.Options) THEN @ ELSE @ + 1]

\* Autocomplete.CycleNext
CycleNext(a) ==
    IF Len(a.Options) = 0 THEN a
    ELSE [a EXCEPT !.Selected = (a.Selected + 1) % Len(a.Options)]

\* Autocomplete.CyclePrev
CyclePrev(a) ==
    IF Len(a.Options) = 0 THEN a
    ELSE [a EXCEPT !.Selected = (a.Selected - 1 + Len(a.Options)) % Len(a.Options)]

\* Autocomplete.SelectedOption
SelectedOption(a) ==
    IF a.Selected >= 0 /\ a.Selected < Len(a.Options) THEN a.Options[a.Selected + 1] ELSE <<>>

\* A completion that inserts the option and removes nothing.
applyCompletionKeep(b, skip, option) ==
    LET runes == currentLine(b)
        nb == setCurrentLine(b, Take(runes, b.col) \o option \o Drop(runes, b.col))
    IN  [nb EXCEPT !.col = b.col + Len(option)]

\* The skip runes before the caret are replaced by the option; the caret
\* ends after the option.
applyCompletion(b, skip, option) ==
    LET runes == currentLine(b)
        nb == setCurrentLine(b, Take(runes, b.col - skip) \o option \o Drop(runes, b.col))
    IN  [nb EXCEPT !.col = b.col - skip + Len(option)]

\* ReplyGetAutocomplete: the buffer and the popup it leaves.
replyGetAutocomplete(b, args) ==
    IF Len(args.options) = 0 THEN [buf |-> b, popup |-> NoPopup]
    ELSE IF Len(args.options) = 1
    THEN [buf |-> applyCompletion(b, args.skip, args.options[1]), popup |-> NoPopup]
    ELSE [buf |-> b, popup |-> NewAutocomplete(args.options, args.skip, args.token, b.col)]

AcOptions == { <<>>, << << "z" >> >>, << << "z" >>, << "y", "y" >> >> }
AcReplyArgs ==
    { [token |-> 0, skip |-> k, options |-> o] : k \in 0..MaxSkip, o \in AcOptions }

AutocompleteEvent(args) ==
    /\ RideStep
    /\ args.skip <= cursorCol
    /\ LET r == replyGetAutocomplete(Buf, args)
       IN  /\ Len(currentLine(r.buf)) <= MaxLineLen
           /\ SetBuf(r.buf)
           /\ autocomplete' = r.popup
    /\ path' = IF Len(args.options) = 0 THEN "autocomplete.none"
               ELSE IF Len(args.options) = 1 THEN "autocomplete.one"
               ELSE "autocomplete.popup"
    /\ sent' = <<>>
    /\ UNCHANGED <<lastExecute, pendingQuit, sentExecute, echoDue, connVars, edVars, ackVars,
                   frameVars, hsVars, width, height, paneMoveMode, confirmQuit,
                   backtickActive, svcVars>>

RideReplyGetAutocomplete == \E args \in AcReplyArgs : AutocompleteEvent(args)

\* The autocomplete key in the session: GetAutocomplete for the current line.
AutocompleteKey ==
    \E ok \in BOOLEAN :
        /\ KeyStep
        /\ ~leaderActive
        /\ ~autocomplete.open
        /\ FocusedPane(pm) = NoPane
        /\ path' = "autocomplete.request"
        /\ LET how == send(connected, ok)
           IN  /\ sent' = IF how = "written"
                          THEN << CmdFrame("GetAutocomplete",
                                           [line |-> currentLine(Buf), pos |-> cursorCol,
                                            token |-> 0]) >>
                          ELSE <<>>
               /\ connected' = IF how = "failed" THEN FALSE ELSE connected
               /\ ready' = IF how = "failed" THEN FALSE ELSE ready
        /\ UNCHANGED <<sessVars, client, waiting, quit, leaderActive, edVars, ackVars,
                       frameVars, hsVars, modeVars>>

PopupKeys == {"next", "prev", "confirm", "esc"}

\* A key while the popup is open: navigation cycles, confirm inserts the
\* selection, Escape cancels.
PopupKey ==
    \E k \in PopupKeys :
        /\ KeyStep
        /\ ~leaderActive
        /\ autocomplete.open
        /\ path' = "autocomplete.key"
        /\ IF k = "confirm"
           THEN LET nb == applyCompletion(Buf, autocomplete.Skip, SelectedOption(autocomplete))
                IN  /\ Len(currentLine(nb)) <= MaxLineLen
                    /\ SetBuf(nb)
                    /\ autocomplete' = NoPopup
           ELSE /\ autocomplete' = CASE k = "next" -> CycleNext(autocomplete)
                                     [] k = "prev" -> CyclePrev(autocomplete)
                                     [] OTHER -> NoPopup
                /\ UNCHANGED bufVars
        /\ sent' = <<>>
        /\ UNCHANGED <<lastExecute, pendingQuit, sentExecute, echoDue, connVars, edVars,
                       ackVars, frameVars, hsVars, width, height, paneMoveMode, confirmQuit,
                       backtickActive, svcVars>>

NextAuto ==
    \/ SessionEdit
    \/ AutocompleteKey
    \/ RideReplyGetAutocomplete
    \/ PopupKey

SpecAuto == Init /\ [][NextAuto]_vars

\* Replies that open a popup of two, three or four options.
AcManyOptions ==
    { << << "z" >>, << "y", "y" >> >>,
      << << "z" >>, << "y" >>, << "x" >> >>,
      << << "z" >>, << "y" >>, << "x" >>, << "w" >> >> }

AcManyArgs == { [token |-> 0, skip |-> k, options |-> o] : k \in 0..1, o \in AcManyOptions }

RideReplyGetAutocompleteMany == \E args \in AcManyArgs : AutocompleteEvent(args)

\* The popup over lists of several options.
NextCycle ==
    \/ AutocompleteKey
    \/ RideReplyGetAutocompleteMany
    \/ PopupKey

SpecCycle == Init /\ [][NextCycle]_vars

(***************************************************************************)
(* Part 9: the local-socket service (main.go: runSocket, execCapture).     *)
(* One goroutine per socket client, all of them using the one interpreter  *)
(* connection made by ride.Connect, whose handshake has read everything up *)
(* to the first prompt.  The interpreter answers one Execute at a time:    *)
(* the echo of the input, then output and "no prompt" messages, then a     *)
(* prompt of a type above 0.  Output is recorded by the request it answers.*)
(***************************************************************************)

sockOther == <<frameVars, hsVars, sessVars, connVars, edVars, ackVars, obsVars, width, height,
               paneMoveMode, confirmQuit, overlayVars, loopVars, runVars>>

\* The request client c is working on.
CurReq(c) == <<c, sockReq[c]>>

\* mu.Lock() would go through at once for everyone.
lockFreeAlways(mu) == TRUE

\* mu.Lock() goes through when nobody holds mu.
lockFree(mu) == mu = 0

\* scanner.Scan(): the client sent a line (an empty one is skipped), or
\* closed its connection.
SockScan(c) ==
    /\ sockPc[c] = "scan"
    /\ \E what \in {"expr", "empty", "eof"} :
          CASE what = "expr" ->
                 /\ sockReq[c] < MaxReq
                 /\ sockReq' = [sockReq EXCEPT ![c] = @ + 1]
                 /\ sockPc' = [sockPc EXCEPT ![c] = "lock"]
            [] what = "empty" ->
                 /\ sockReq[c] < MaxReq
                 /\ sockReq' = [sockReq EXCEPT ![c] = @ + 1]
                 /\ UNCHANGED sockPc
            [] OTHER ->
                 /\ sockPc' = [sockPc EXCEPT ![c] = "closed"]
                 /\ UNCHANGED sockReq
    /\ UNCHANGED <<sockMu, sockBuf, sockExec, sockInterp, sockWire, sockUp, sockOther>>

\* mu.Lock(), and the entry of execCapture with an empty buf.
SockLock(c) ==
    /\ sockPc[c] = "lock"
    /\ lockFree(sockMu)
    /\ sockMu' = c
    /\ sockBuf' = [sockBuf EXCEPT ![c] = <<>>]
    /\ sockPc' = [sockPc EXCEPT ![c] = "send"]
    /\ UNCHANGED <<sockReq, sockExec, sockInterp, sockWire, sockUp, sockOther>>

\* execCapture: client.Send("Execute", ...).  On an error it returns at once.
SockSend(c) ==
    /\ sockPc[c] = "send"
    /\ \E ok \in BOOLEAN :
          IF ok
          THEN /\ sockExec' = IF sockUp THEN Append(sockExec, CurReq(c)) ELSE sockExec
               /\ sockPc' = [sockPc EXCEPT ![c] = "recv"]
          ELSE /\ ~sockUp
               /\ sockPc' = [sockPc EXCEPT ![c] = "unlock"]
               /\ UNCHANGED sockExec
    /\ UNCHANGED <<sockMu, sockReq, sockBuf, sockInterp, sockWire, sockUp, sockOther>>

\* execCapture: one turn of its loop on a message Recv returned.
execCaptureTurn(c, m) ==
    CASE m.cmd = "AppendSessionOutput" ->
           /\ sockBuf' = IF m.type = 14 THEN sockBuf
                         ELSE [sockBuf EXCEPT ![c] = Append(@, m.req)]
           /\ UNCHANGED sockPc
      [] m.cmd = "SetPromptType" ->
           /\ sockPc' = IF m.type > 0 THEN [sockPc EXCEPT ![c] = "unlock"] ELSE sockPc
           /\ UNCHANGED sockBuf
      [] OTHER ->
           UNCHANGED <<sockPc, sockBuf>>

\* execCapture: client.Recv() returned a message, or an error once the
\* connection is closed and nothing is left to read.
SockRecv(c) ==
    /\ sockPc[c] = "recv"
    /\ IF sockWire # <<>>
       THEN /\ execCaptureTurn(c, Head(sockWire))
            /\ sockWire' = Tail(sockWire)
       ELSE /\ ~sockUp
            /\ sockPc' = [sockPc EXCEPT ![c] = "unlock"]
            /\ UNCHANGED <<sockBuf, sockWire>>
    /\ UNCHANGED <<sockMu, sockReq, sockExec, sockInterp, sockUp, sockOther>>

\* mu.Unlock()
SockUnlock(c) ==
    /\ sockPc[c] = "unlock"
    /\ sockMu' = 0
    /\ sockPc' = [sockPc EXCEPT ![c] = "write"]
    /\ UNCHANGED <<sockReq, sockBuf, sockExec, sockInterp, sockWire, sockUp, sockOther>>

\* c.Write(result); result is gone with the turn of the loop.
SockWrite(c) ==
    /\ sockPc[c] = "write"
    /\ sockPc' = [sockPc EXCEPT ![c] = "scan"]
    /\ sockBuf' = [sockBuf EXCEPT ![c] = <<>>]
    /\ UNCHANGED <<sockMu, sockReq, sockExec, sockInterp, sockWire, sockUp, sockOther>>

\* The interpreter takes up an Execute and echoes its text (type 14).
InterpTake ==
    /\ sockUp
    /\ sockInterp.req = NoReq
    /\ sockExec # <<>>
    /\ sockInterp' = [req |-> Head(sockExec), outs |-> 0]
    /\ sockExec' = Tail(sockExec)
    /\ sockWire' = Append(sockWire, [cmd |-> "AppendSessionOutput", type |-> 14,
                                     req |-> Head(sockExec)])
    /\ UNCHANGED <<sockPc, sockMu, sockReq, sockBuf, sockUp, sockOther>>

\* What the interpreter writes while it answers: output, an error report,
\* "no prompt", and last a prompt of a type above 0.
InterpMsgs(r) ==
    { [cmd |-> "AppendSessionOutput", type |-> 1, req |-> r],
      [cmd |-> "HadError", type |-> 0, req |-> r] }
    \cup { [cmd |-> "SetPromptType", type |-> t, req |-> r] : t \in 0..4 }

InterpEmit ==
    /\ sockUp
    /\ sockInterp.req # NoReq
    /\ \E m \in InterpMsgs(sockInterp.req) :
          /\ sockWire' = Append(sockWire, m)
          /\ IF m.cmd = "SetPromptType" /\ m.type > 0
             THEN sockInterp' = [req |-> NoReq, outs |-> 0]
             ELSE /\ sockInterp.outs < MaxOut
                  /\ sockInterp' = [sockInterp EXCEPT !.outs = @ + 1]
    /\ UNCHANGED <<sockPc, sockMu, sockReq, sockBuf, sockExec, sockUp, sockOther>>

\* The interpreter connection breaks; what was written stays readable.
SockDrop ==
    /\ sockUp
    /\ sockUp' = FALSE
    /\ UNCHANGED <<sockPc, sockMu, sockReq, sockBuf, sockExec, sockInterp, sockWire, sockOther>>

NextSock ==
    \/ \E c \in Clients : SockScan(c)
    \/ \E c \in Clients : SockLock(c)
    \/ \E c \in Clients : SockSend(c)
    \/ \E c \in Clients : SockRecv(c)
    \/ \E c \in Clients : SockUnlock(c)
    \/ \E c \in Clients : SockWrite(c)
    \/ InterpTake
    \/ InterpEmit
    \/ SockDrop

SpecSock == Init /\ [][NextSock]_vars

(***************************************************************************)
(* Part 10: the reader workers and the event loop (tui.go: startRecvLoop,  *)
(* waitForRide, Update).  A worker reads its connection and hands each     *)
(* event over its unbuffered channel to a waitForRide command, which the   *)
(* runtime runs in a goroutine of its own and whose result it passes to    *)
(* Update.  The k-th message a worker receives is named <<worker, k>>.     *)
(***************************************************************************)

loopOther == <<width, height, paneMoveMode, confirmQuit, overlayVars, sockVars, runVars>>

\* startRecvLoop, the worker: m.client.Recv() returned a message or an error.
ReaderRecv(k) ==
    /\ waiters[k] > 0 \/ rdNext[k] > 0      \* worker k was started
    /\ ~rdDone[k]
    /\ rdChan[k] = <<>>
    /\ rdNext[k] < MaxMsgs
    /\ \E err \in BOOLEAN :
          rdChan' = [rdChan EXCEPT ![k] = << [conn |-> k, idx |-> rdNext[k] + 1, err |-> err] >>]
    /\ rdNext' = [rdNext EXCEPT ![k] = @ + 1]
    /\ UNCHANGED <<mMsgs, rdDone, waiters, inbox, handled, frameVars, hsVars, sessVars, connVars,
                   edVars, ackVars, obsVars, loopOther>>

\* ch <- rideEvent{...} in the worker meets <-ch in a waitForRide command;
\* the worker returns after handing over an error.
ReaderHandOff(k) ==
    /\ rdChan[k] # <<>>
    /\ waiters[k] > 0
    /\ inbox' = inbox \cup {rdChan[k][1]}
    /\ waiters' = [waiters EXCEPT ![k] = @ - 1]
    /\ rdChan' = [rdChan EXCEPT ![k] = <<>>]
    /\ rdDone' = [rdDone EXCEPT ![k] = rdChan[k][1].err]
    /\ UNCHANGED <<mMsgs, rdNext, handled, frameVars, hsVars, sessVars, connVars, edVars,
                   ackVars, obsVars, loopOther>>

\* The connections a waitForRide is pending on, or has an event under way for.
Waiting(w, in) == { k \in Conns : w[k] > 0 \/ \E e \in in : e.conn = k }

\* Update with a rideEvent: handleRide.  An error takes the disconnect
\* branch, which waits for nothing more; a payload that is no JSON message
\* is logged, and waitForRide(m.msgs) is returned as for every message.
LoopRide(e) ==
    /\ ~quit
    /\ e \in inbox
    /\ inbox' = inbox \ {e}
    /\ handled' = Append(handled, <<e.conn, e.idx>>)
    /\ sent' = <<>>
    /\ IF e.err
       THEN /\ path' = IF pendingQuit THEN "error.quit" ELSE "error.disconnected"
            /\ connected' = FALSE
            /\ ready' = FALSE
            /\ IF pendingQuit
               THEN quit' = TRUE /\ UNCHANGED bufVars
               ELSE /\ Len(lines) + 2 <= MaxLines
                    /\ SetBuf(disconnected(Buf))
                    /\ UNCHANGED quit
            /\ UNCHANGED waiters
       ELSE /\ path' = "raw"
            /\ waiters' = [waiters EXCEPT ![mMsgs] = @ + 1]
            /\ UNCHANGED <<bufVars, pristine, connected, ready, quit>>
    /\ waiting' = Waiting(waiters', inbox')
    /\ UNCHANGED <<lastExecute, pendingQuit, sentExecute, echoDue, client, leaderActive, nKeys,
                   nEvents, mMsgs, rdChan, rdNext, rdDone, edVars, ackVars, frameVars, hsVars,
                   loopOther>>

LoopRideAny == \E e \in inbox : LoopRide(e)

\* reconnect: a successful Connect is followed by startRecvLoop, whose
\* channel becomes m.msgs, and by waitForRide on it.
LoopReconnect ==
    /\ reconnectKey
    /\ IF path' = "reconnect.connected"
       THEN /\ mMsgs' = client'
            /\ waiters' = [waiters EXCEPT ![client'] = @ + 1]
       ELSE UNCHANGED <<mMsgs, waiters>>
    /\ UNCHANGED <<rdChan, rdNext, rdDone, inbox, handled, loopOther>>

NextLoop ==
    \/ \E k \in Conns : ReaderRecv(k)
    \/ \E k \in Conns : ReaderHandOff(k)
    \/ LoopRideAny
    \/ SessionEdit
    \/ SessionEnter
    \/ KeyLeader
    \/ LoopReconnect

SpecLoop == Init /\ [][NextLoop]_vars

NextPane ==
    \/ RideOpenWindow
    \/ RideCloseWindow
    \/ Resize
    \/ Mouse
    \/ KeyLeader
    \/ LeaderDebug
    \/ LeaderKeys
    \/ LeaderMoveMode
    \/ MoveModeKey
    \/ KeyTab
    \/ KeyEsc

SpecPane == Init /\ [][NextPane]_vars

\* Panes, terminal sizes and a pointer that stays inside the terminal.
NextDrag ==
    \/ RideOpenWindow
    \/ Resize
    \/ MouseOnScreen
    \/ KeyLeader
    \/ LeaderKeys

SpecDrag == Init /\ [][NextDrag]_vars

(***************************************************************************)
(* Decoding a stream the peer wrote.  The peer writes whatever bytes it    *)
(* likes and closes the stream; recvRaw then reads frame after frame and   *)
(* meets the end of the stream where the bytes end.                        *)
(***************************************************************************)

decodeOther == <<hsVars, sessVars, connVars, edVars, ackVars, sent, nKeys, nEvents, modeVars>>

\* Length words the peer may announce: below 4, a bare tag (4), whole frames
\* of 0, 1 and 4 payload bytes (8, 9, 12), 64 MiB + 1 and 2^32 - 1.
LengthWords ==
    { [hi |-> 0, lo |-> 0], [hi |-> 0, lo |-> 3], [hi |-> 0, lo |-> 4], [hi |-> 0, lo |-> 8],
      [hi |-> 0, lo |-> 9], [hi |-> 0, lo |-> 12], [hi |-> 1024, lo |-> 1],
      [hi |-> Half - 1, lo |-> Half - 1] }

\* What the peer may write after a length word.
PeerData == { <<>>, <<120>>, rideHeader, rideHeader \o <<120>>, rideHeader \o rideHeader }

\* The peer writes a length word, or the first bytes of one, and some data;
\* framesSent holds the data of each write.
PeerWrite ==
    /\ Len(framesSent) < MaxFrames
    /\ framesRecv = <<>>
    /\ ~recvErr
    /\ path \in {"init", "peer"}
    /\ \E w \in LengthWords, n \in 1..4, d \in PeerData :
          /\ n < 4 => d = <<>>
          /\ wire' = wire \o Take(BigEndian32(w), n) \o d
          /\ lastFrame' = Take(BigEndian32(w), n) \o d
          /\ framesSent' = Append(framesSent, d)
    /\ path' = "peer"
    /\ UNCHANGED <<framesRecv, recvErr, decodeOther>>

\* One call of recvRaw on the closed stream; path is the error it returned.
DecodeOne ==
    /\ ~recvErr
    /\ Len(framesRecv) <= Len(framesSent)
    /\ LET got == recvRaw(wire)
       IN  /\ wire' = got.rest
           /\ recvErr' = (got.err # "")
           /\ framesRecv' = IF got.err = "" THEN Append(framesRecv, got.payload)
                            ELSE framesRecv
           /\ path' = IF got.err = "" THEN "decoded" ELSE got.err
    /\ UNCHANGED <<framesSent, lastFrame, decodeOther>>

NextDecode == PeerWrite \/ DecodeOne

SpecDecode == Init /\ [][NextDecode]_vars

(***************************************************************************)
(* Search panes (command_palette.go, SymbolSearch, APLcart): a query line  *)
(* over a list, a selection and a scroll offset.  Characters are strings   *)
(* of length 1, a text is a sequence of them.  A pane's filtered list is   *)
(* kept as the indices of its entries.                                     *)
(***************************************************************************)

\* aplSymbols, its first 20 entries of 70: per symbol its names; Char stands
\* for the rune, written as the symbol's first name.
aplSymbols ==
    <<
       [Char |-> "iota", Names |-> <<<<"i", "o", "t", "a">>, <<"i", "n", "d", "e", "x">>, <<"g", "e", "n", "e", "r", "a", "t", "o", "r">>, <<"i", "n", "t", "e", "g", "e", "r", "s">>>>],
       [Char |-> "rho", Names |-> <<<<"r", "h", "o">>, <<"s", "h", "a", "p", "e">>, <<"r", "e", "s", "h", "a", "p", "e">>>>],
       [Char |-> "alpha", Names |-> <<<<"a", "l", "p", "h", "a">>, <<"l", "e", "f", "t">>, <<"a", "r", "g", "u", "m", "e", "n", "t">>>>],
       [Char |-> "omega", Names |-> <<<<"o", "m", "e", "g", "a">>, <<"r", "i", "g", "h", "t">>, <<"a", "r", "g", "u", "m", "e", "n", "t">>>>],
       [Char |-> "assign", Names |-> <<<<"a", "s", "s", "i", "g", "n">>, <<"a", "s", "s", "i", "g", "n", "m", "e", "n", "t">>, <<"g", "e", "t", "s">>, <<"a", "r", "r", "o", "w">>>>],
       [Char |-> "branch", Names |-> <<<<"b", "r", "a", "n", "c", "h">>, <<"g", "o", "t", "o">>, <<"r", "i", "g", "h", "t", " ", "a", "r", "r", "o", "w">>>>],
       [Char |-> "epsilon", Names |-> <<<<"e", "p", "s", "i", "l", "o", "n">>, <<"m", "e", "m", "b", "e", "r">>, <<"m", "e", "m", "b", "e", "r", "s", "h", "i", "p">>, <<"i", "n">>, <<"e", "n", "l", "i", "s", "t">>>>],
       [Char |-> "find", Names |-> <<<<"f", "i", "n", "d">>, <<"e", "p", "s", "i", "l", "o", "n", " ", "u", "n", "d", "e", "r", "b", "a", "r">>>>],
       [Char |-> "where", Names |-> <<<<"w", "h", "e", "r", "e">>, <<"i", "o", "t", "a", " ", "u", "n", "d", "e", "r", "b", "a", "r">>, <<"i", "n", "t", "e", "r", "v", "a", "l", " ", "i", "n", "d", "e", "x">>>>],
       [Char |-> "take", Names |-> <<<<"t", "a", "k", "e">>, <<"m", "i", "x">>, <<"u", "p", " ", "a", "r", "r", "o", "w">>, <<"u", "p", "a", "r", "r", "o", "w">>>>],
       [Char |-> "drop", Names |-> <<<<"d", "r", "o", "p">>, <<"s", "p", "l", "i", "t">>, <<"d", "o", "w", "n", " ", "a", "r", "r", "o", "w">>, <<"d", "o", "w", "n", "a", "r", "r", "o", "w">>>>],
       [Char |-> "enclose", Names |-> <<<<"e", "n", "c", "l", "o", "s", "e">>, <<"l", "e", "f", "t", " ", "s", "h", "o", "e">>, <<"p", "a", "r", "t", "i", "t", "i", "o", "n", "e", "d", " ", "e", "n", "c", "l", "o", "s", "e">>>>],
       [Char |-> "disclose", Names |-> <<<<"d", "i", "s", "c", "l", "o", "s", "e">>, <<"p", "i", "c", "k">>, <<"r", "i", "g", "h", "t", " ", "s", "h", "o", "e">>, <<"f", "i", "r", "s", "t">>>>],
       [Char |-> "intersection", Names |-> <<<<"i", "n", "t", "e", "r", "s", "e", "c", "t", "i", "o", "n">>, <<"c", "a", "p">>>>],
       [Char |-> "union", Names |-> <<<<"u", "n", "i", "o", "n">>, <<"c", "u", "p">>, <<"u", "n", "i", "q", "u", "e">>>>],
       [Char |-> "ceiling", Names |-> <<<<"c", "e", "i", "l", "i", "n", "g">>, <<"m", "a", "x">>, <<"m", "a", "x", "i", "m", "u", "m">>, <<"u", "p", "s", "t", "i", "l", "e">>>>],
       [Char |-> "floor", Names |-> <<<<"f", "l", "o", "o", "r">>, <<"m", "i", "n">>, <<"m", "i", "n", "i", "m", "u", "m">>, <<"d", "o", "w", "n", "s", "t", "i", "l", "e">>>>],
       [Char |-> "times", Names |-> <<<<"t", "i", "m", "e", "s">>, <<"m", "u", "l", "t", "i", "p", "l", "y">>, <<"s", "i", "g", "n", "u", "m">>, <<"s", "i", "g", "n">>>>],
       [Char |-> "divide", Names |-> <<<<"d", "i", "v", "i", "d", "e">>, <<"d", "i", "v", "i", "s", "i", "o", "n">>, <<"r", "e", "c", "i", "p", "r", "o", "c", "a", "l">>>>],
       [Char |-> "power", Names |-> <<<<"p", "o", "w", "e", "r">>, <<"s", "t", "a", "r">>, <<"e", "x", "p", "o", "n", "e", "n", "t", "i", "a", "l">>>>]
    >>

\* The commands openCommandPalette lists.
Commands ==
    <<
       [Name |-> <<"d", "e", "b", "u", "g">>,
        Help |-> <<"T", "o", "g", "g", "l", "e", " ", "d", "e", "b", "u", "g", " ", "p", "a", "n", "e">>],
       [Name |-> <<"s", "t", "a", "c", "k">>,
        Help |-> <<"T", "o", "g", "g", "l", "e", " ", "s", "t", "a", "c", "k", " ", "p", "a", "n", "e">>],
       [Name |-> <<"k", "e", "y", "s">>,
        Help |-> <<"S", "h", "o", "w", " ", "k", "e", "y", " ", "b", "i", "n", "d", "i", "n", "g", "s">>],
       [Name |-> <<"s", "y", "m", "b", "o", "l", "s">>,
        Help |-> <<"S", "e", "a", "r", "c", "h", " ", "A", "P", "L", " ", "s", "y", "m", "b", "o", "l", "s">>],
       [Name |-> <<"a", "p", "l", "c", "a", "r", "t">>,
        Help |-> <<"S", "e", "a", "r", "c", "h", " ", "A", "P", "L", "c", "a", "r", "t", " ", "i", "d", "i", "o", "m", "s">>],
       [Name |-> <<"r", "e", "c", "o", "n", "n", "e", "c", "t">>,
        Help |-> <<"R", "e", "c", "o", "n", "n", "e", "c", "t", " ", "t", "o", " ", "D", "y", "a", "l", "o", "g">>],
       [Name |-> <<"s", "a", "v", "e">>,
        Help |-> <<"S", "a", "v", "e", " ", "s", "e", "s", "s", "i", "o", "n", " ", "t", "o", " ", "f", "i", "l", "e">>],
       [Name |-> <<"q", "u", "i", "t">>,
        Help |-> <<"Q", "u", "i", "t", " ", "g", "r", "i", "t", "t">>]
    >>
\* The entries an APLcartLoaded message may carry: none, or three idioms.
CartEntries ==
    << [Syntax |-> <<"e">>, Description |-> <<"E">>, Keywords |-> <<>>],
       [Syntax |-> <<"q", "e">>, Description |-> <<"x">>, Keywords |-> <<"q">>],
       [Syntax |-> <<>>, Description |-> <<"e", "e">>, Keywords |-> <<>>] >>

CartTables == { <<>>, CartEntries }

\* Bound: characters of a query.
MaxQuery == 2

SearchKinds == {"commands", "symbols", "aplcart"}

\* The pane IDs "commands", "symbols", "aplcart".
SearchId(kind) == <<kind, 0>>

UpperCase ==
    <<"A", "B", "C", "D", "E", "F", "G", "H", "I", "J", "K", "L", "M", "N", "O", "P", "Q", "R",
      "S", "T", "U", "V", "W", "X", "Y", "Z">>

LowerCase ==
    <<"a", "b", "c", "d", "e", "f", "g", "h", "i", "j", "k", "l", "m", "n", "o", "p", "q", "r",
      "s", "t", "u", "v", "w", "x", "y", "z">>

\* strings.ToLower
ToLower(s) ==
    [i \in 1..Len(s) |->
        IF \E j \in 1..26 : UpperCase[j] = s[i]
        THEN LowerCase[CHOOSE j \in 1..26 : UpperCase[j] = s[i]]
        ELSE s[i]]

\* strings.Contains
Contains(s, q) == \E i \in 0..(Len(s) - Len(q)) : SubSeq(s, i + 1, i + Len(q)) = q

\* The members of a set of indices in increasing order.
Ascending(S) ==
    LET n == IF S = {} THEN 0 ELSE CHOOSE i \in S : \A j \in S : j <= i
        Up[k \in 0..n] == IF k = 0 THEN <<>>
                          ELSE IF k \in S THEN Append(Up[k - 1], k) ELSE Up[k - 1]
    IN  Up[n]

\* NewCommandPalette, NewSymbolSearch, NewAPLcart
NewSearch(kind) ==
    [kind |-> kind,
     entries |-> <<>>,
     filtered |-> CASE kind = "commands" -> Ascending(1..Len(Commands))
                    [] kind = "symbols" -> Ascending(1..Len(aplSymbols))
                    [] OTHER -> <<>>,
     query |-> <<>>, selected |-> 0, scroll |-> 0,
     loading |-> (kind = "aplcart"), err |-> FALSE, Focused |-> FALSE]

\* The list a pane searches: c.commands, aplSymbols, a.entries.
EntriesOf(s) ==
    CASE s.kind = "commands" -> Commands
      [] s.kind = "symbols" -> aplSymbols
      [] OTHER -> s.entries

\* The runes typed into a query, and the queries they make.
SearchRunes == {"e", "q"}
Queries == UNION { [1..n -> SearchRunes] : n \in 0..MaxQuery }

\* The test filter() applies to entry e for the lower-cased query q.
Matches(kind, e, q) ==
    CASE kind = "commands" ->
            Contains(ToLower(e.Name), q) \/ Contains(ToLower(e.Help), q)
      [] kind = "symbols" ->
            \E n \in 1..Len(e.Names) : Contains(e.Names[n], q)
      [] OTHER ->
            \/ Contains(ToLower(e.Description), q)
            \/ Contains(ToLower(e.Keywords), q)
            \/ Contains(ToLower(e.Syntax), q)

\* The entries of list es that filter() keeps for a query.
Keep(kind, es, query) ==
    IF query = <<>> THEN Ascending(1..Len(es))
    ELSE Ascending({ i \in 1..Len(es) : Matches(kind, es[i], ToLower(query)) })

\* Keep for each list and query, worked out once: <<kind, query, kept>>.
KeepTable ==
    { <<kind, q, Keep(kind, CASE kind = "commands" -> Commands
                              [] kind = "symbols" -> aplSymbols
                              [] OTHER -> CartEntries, q)>> :
          kind \in SearchKinds, q \in Queries }

\* The entries filter() keeps for the query of s.
Filtered(s) ==
    IF EntriesOf(s) = <<>> THEN <<>>
    ELSE (CHOOSE t \in KeepTable : t[1] = s.kind /\ t[2] = s.query)[3]

\* Clamp the selection to the list and scroll to the top.
clampSelected(s) ==
    LET a == IF s.selected >= Len(s.filtered) THEN Len(s.filtered) - 1 ELSE s.selected
    IN  [s EXCEPT !.selected = IF a < 0 THEN 0 ELSE a, !.scroll = 0]

\* CommandPalette.filter
CommandPaletteFilter(c) == clampSelected([c EXCEPT !.filtered = Filtered(c)])

\* SymbolSearch.filter and APLcart.filter
SymbolSearchFilter(s) ==
    IF s.query = <<>>
    THEN [s EXCEPT !.filtered = Filtered(s), !.selected = 0, !.scroll = 0]
    ELSE clampSelected([s EXCEPT !.filtered = Filtered(s)])

\* filter() of the pane at hand.
filter(s) == IF s.kind = "commands" THEN CommandPaletteFilter(s) ELSE SymbolSearchFilter(s)

\* The keys a search pane tells apart; a rune is its character.
SearchKeys == {"up", "down", "enter", "backspace"} \cup SearchRunes

\* CommandPalette.HandleKey, Enter excepted (it touches no field kept here).
CommandPaletteHandleKey(c, k) ==
    CASE k = "up" ->
            IF c.selected > 0
            THEN [c EXCEPT !.selected = @ - 1,
                           !.scroll = IF c.selected - 1 < @ THEN c.selected - 1 ELSE @]
            ELSE c
      [] k = "down" ->
            IF c.selected < Len(c.filtered) - 1 THEN [c EXCEPT !.selected = @ + 1] ELSE c
      [] k = "backspace" ->
            IF Len(c.query) > 0
            THEN filter([c EXCEPT !.query = Take(@, Len(@) - 1)])
            ELSE c
      [] k \in SearchRunes -> filter([c EXCEPT !.query = Append(@, k)])
      [] OTHER -> c

\* SymbolSearch.HandleKey and APLcart.HandleKey, Enter excepted.
SymbolSearchHandleKey(s, k) ==
    IF s.loading \/ s.err THEN s
    ELSE CASE k = "up" ->
                 IF s.selected > 0
                 THEN [s EXCEPT !.selected = @ - 1,
                                !.scroll = IF s.selected - 1 < @ THEN s.selected - 1 ELSE @]
                 ELSE s
           [] k = "down" ->
                 IF s.selected < Len(s.filtered) - 1
                 THEN [s EXCEPT !.selected = @ + 1,
                                !.scroll = IF s.selected + 1 >= @ + 15
                                           THEN s.selected + 1 - 14 ELSE @]
                 ELSE s
           [] k = "backspace" ->
                 IF Len(s.query) > 0
                 THEN filter([s EXCEPT !.query = Take(@, Len(@) - 1)])
                 ELSE s
           [] k \in SearchRunes -> filter([s EXCEPT !.query = Append(@, k)])
           [] OTHER -> s

\* The rows of the list a pane draws: Pane.Render gives the content the
\* height less the border, the content's Render takes two rows for the
\* query and the rule.
ListH(p) ==
    LET contentH == IF p.Height - 2 < 1 THEN 1 ELSE p.Height - 2
    IN  IF p.kind = "commands" /\ contentH - 2 < 1 THEN 1 ELSE contentH - 2

\* CommandPalette.AdjustScroll
AdjustScroll(c, listH) ==
    LET down == IF c.selected >= c.scroll + listH THEN c.selected - listH + 1 ELSE c.scroll
    IN  [c EXCEPT !.scroll = IF c.selected < down THEN c.selected ELSE down]

\* Render of a pane's content: only the command palette changes state in it.
Render(p) == IF p.kind = "commands" THEN AdjustScroll(p, ListH(p)) ELSE p

\* PaneManager.Render, called by View after every Update.
View(m) ==
    [m EXCEPT !.panes = [i \in DOMAIN m.panes |->
                            IF i[1] \in SearchKinds THEN Render(m.panes[i]) ELSE m.panes[i]]]

\* openCommandPalette, openSymbolSearch, openAPLcart
openSearch(m, kind) ==
    LET id == SearchId(kind)
        paneW == CASE kind = "commands" -> 40 [] kind = "symbols" -> 50 [] OTHER -> 70
        paneH == CASE kind = "commands" -> Min(Len(Commands) + 3, 15)
                   [] kind = "symbols" -> Min(20, height - 4)
                   [] OTHER -> Min(25, height - 4)
        paneX == Quot(width - paneW, 2)
        paneY == IF kind = "commands" THEN 2 ELSE Quot(height - paneH, 2)
    IN  IF id \in DOMAIN m.panes THEN Remove(m, id)
        ELSE Focus(Add(m, id, NewPane(NewSearch(kind), paneX, paneY, paneW, paneH)), id)

\* handleKey, leader sequence CommandPalette.
LeaderPalette ==
    /\ EdKeyStep
    /\ leaderActive
    /\ leaderActive' = FALSE
    /\ path' = "openCommandPalette"
    /\ pm' = View(openSearch(pm, "commands"))
    /\ NotWritten
    /\ UNCHANGED <<editors, heap, tracerStack, tracerCurrent, sessVars, connected, ready,
                   client, waiting, quit, frameVars, hsVars, modeVars>>

\* Update, case APLcartLoaded: the fetch the pane started ended.
AplcartLoaded ==
    \E entries \in CartTables, err \in BOOLEAN :
        /\ ~quit
        /\ SearchId("aplcart") \in DOMAIN pm.panes
        /\ pm.panes[SearchId("aplcart")].loading
        /\ err => entries = <<>>
        /\ pm' = [pm EXCEPT !.panes[SearchId("aplcart")] =
                     [@ EXCEPT !.loading = FALSE, !.err = err, !.entries = entries,
                               !.filtered = Ascending(1..Len(entries))]]
        /\ path' = "aplcartLoaded"
        /\ UNCHANGED <<editors, heap, tracerStack, tracerCurrent, sessVars, connVars, ackVars,
                       sent, nKeys, nEvents, frameVars, hsVars, modeVars>>

\* The commands of the palette whose dispatch is followed here.
OpensSearch == { Commands[4].Name, Commands[5].Name }

\* The name of a palette command as a pane kind.
KindOf(name) == IF name = Commands[4].Name THEN "symbols" ELSE "aplcart"

\* handleKey routes a key to the focused search pane, then takes the pane's
\* selection when Enter made one: a palette command is dispatched (only
\* "symbols" and "aplcart" are chosen here), a symbol or an idiom is typed
\* into the session.  View follows.
SearchKey ==
    \E k \in SearchKeys :
        /\ ~quit
        /\ ~backtickActive
        /\ ~confirmQuit
        /\ ~paneMoveMode
        /\ ~leaderActive
        /\ FocusedPane(pm) # NoPane
        /\ FocusedPane(pm)[1] \in SearchKinds
        /\ LET id == FocusedPane(pm)
               p == pm.panes[id]
               live == ~(p.kind # "commands" /\ (p.loading \/ p.err))
               picked == /\ k = "enter"
                         /\ live
                         /\ p.selected >= 0
                         /\ p.selected < Len(p.filtered)
               e == EntriesOf(p)[p.filtered[p.selected + 1]]
               typed == IF p.kind = "symbols" THEN << e.Char >> ELSE e.Syntax
               np == IF p.kind = "commands" THEN CommandPaletteHandleKey(p, k)
                     ELSE SymbolSearchHandleKey(p, k)
           IN  /\ k \in SearchRunes => Len(p.query) < MaxQuery
               /\ IF picked /\ p.kind = "commands"
                  THEN /\ e.Name \in OpensSearch
                       /\ pm' = View(openSearch(Remove(pm, id), KindOf(e.Name)))
                       /\ path' = "search.dispatch"
                       /\ UNCHANGED bufVars
                  ELSE IF picked /\ typed # <<>>
                  THEN /\ pm' = View(Remove(pm, id))
                       /\ Len(currentLine(insertRunes(Buf, typed))) <= MaxLineLen
                       /\ SetBuf(insertRunes(Buf, typed))
                       /\ path' = "search.insert"
                  ELSE /\ pm' = View([pm EXCEPT !.panes[id] = np])
                       /\ path' = "search.key"
                       /\ UNCHANGED bufVars
        /\ sent' = <<>>
        /\ UNCHANGED <<editors, heap, tracerStack, tracerCurrent, lastExecute, pendingQuit,
                       sentExecute, echoDue, connVars, ackVars, nKeys, nEvents, frameVars,
                       hsVars, modeVars>>

\* The search panes, opened from the command palette, on terminals of the
\* sizes a WindowSizeMsg reports.
NextSearch ==
    \/ Resize
    \/ KeyLeader
    \/ LeaderPalette
    \/ SearchKey
    \/ AplcartLoaded

SpecSearch == Init /\ [][NextSearch]_vars

(***************************************************************************)
(* Part 13: the cursor of an editor window (editor.go: NewEditorWindow,    *)
(* Update; part_004: the EditorPane's keys, SetHighlightLine; tui.go:      *)
(* handleRide).  A Go index or slice expression outside its bounds panics  *)
(* and ends the program.                                                   *)
(***************************************************************************)

\* The texts an OpenWindow or UpdateWindow of this part carries: no line, one
\* empty line, one line, two lines.
CursorTexts == { <<>>, << <<>> >>, << << "a", "b" >> >>, << << "a" >>, << "b", "c" >> >> }

MaxCursorLines == 3

CursorOpenArgs ==
    { [token |-> 1, debugger |-> d, readOnly |-> 0, text |-> tx, currentRow |-> r] :
        d \in {0, 1}, tx \in CursorTexts, r \in 0..2 }

CursorUpdateArgs == { [token |-> 1, text |-> tx] : tx \in CursorTexts }

\* handleRide, case "OpenWindow", with the texts and rows of this part.
RideOpenWindowAt ==
    \E args \in CursorOpenArgs :
        /\ EdRideStep
        /\ Len(heap) < MaxWindows
        /\ SetEd(openWindow(Ed, args, Cb))
        /\ path' = "openWindow"
        /\ WindowEvent(args.token)
        /\ UNCHANGED <<sessVars, connVars, frameVars, hsVars, modeVars>>

\* handleRide, case "UpdateWindow", with the texts of this part.
RideUpdateWindowText == \E args \in CursorUpdateArgs : UpdateWindowEvent(args)

\* EditorPane.SetHighlightLine on the window the pane shows.
SetHighlightLine(w, line) ==
    IF line >= 0 /\ line < Len(w.Text)
    THEN [w EXCEPT !.CursorRow = line, !.CursorCol = 0]
    ELSE w

\* handleRide, case "SetHighlightLine": the window objects afterwards.
setHighlightLine(e, t, line) ==
    LET h1 == IF t \in DOMAIN e.editors
              THEN [e.heap EXCEPT ![e.editors[t]].CurrentRow = line]
              ELSE e.heap
        id == IF isInTracerStack(e, t)
              THEN (IF t = e.tracerCurrent THEN TracerId ELSE NoPane)
              ELSE EditorId(t)
    IN  IF id \in DOMAIN e.pm.panes
        THEN [h1 EXCEPT ![e.pm.panes[id].win] = SetHighlightLine(@, line)]
        ELSE h1

RideSetHighlightLine ==
    \E t \in Tokens, line \in 0..2 :
        /\ EdRideStep
        /\ heap' = setHighlightLine(Ed, t, line)
        /\ path' = "setHighlightLine"
        /\ NotWritten
        /\ UNCHANGED <<editors, tracerStack, tracerCurrent, pm, sessVars, connVars,
                       frameVars, hsVars, modeVars>>

\* EditorPane.currentLine
winCurrentLine(w) ==
    IF w.CursorRow >= 0 /\ w.CursorRow < Len(w.Text) THEN w.Text[w.CursorRow + 1] ELSE <<>>

\* EditorPane.clampCol
winClampCol(w) ==
    IF w.CursorCol > Len(winCurrentLine(w))
    THEN [w EXCEPT !.CursorCol = Len(winCurrentLine(w))] ELSE w

\* EditorPane.cursorUp
cursorUp(w) ==
    IF w.CursorRow > 0 THEN winClampCol([w EXCEPT !.CursorRow = @ - 1]) ELSE w

\* EditorPane.cursorDown
cursorDown(w) ==
    IF w.CursorRow < Len(w.Text) - 1 THEN winClampCol([w EXCEPT !.CursorRow = @ + 1]) ELSE w

\* EditorPane.cursorLeft
cursorLeft(w) ==
    IF w.CursorCol > 0 THEN [w EXCEPT !.CursorCol = @ - 1]
    ELSE IF w.CursorRow > 0
    THEN LET w1 == [w EXCEPT !.CursorRow = @ - 1]
         IN  [w1 EXCEPT !.CursorCol = Len(winCurrentLine(w1))]
    ELSE w

\* EditorPane.cursorRight
cursorRight(w) ==
    IF w.CursorCol < Len(winCurrentLine(w)) THEN [w EXCEPT !.CursorCol = @ + 1]
    ELSE IF w.CursorRow < Len(w.Text) - 1
    THEN [w EXCEPT !.CursorRow = @ + 1, !.CursorCol = 0]
    ELSE w

\* The index and slice expressions of the editing functions that are outside
\* their bounds for window w: Text[CursorRow] in insertChar and insertNewline;
\* runes[:col-1], runes[col:], Text[CursorRow-1] and Text[CursorRow+1:] in
\* deleteCharBack.  deleteCharForward and the cursor keys index under a guard.
IndexesOutside(w, key) ==
    LET rowIn == w.CursorRow >= 0 /\ w.CursorRow < Len(w.Text)
    IN  CASE key \in {"runes", "enter"} -> ~rowIn
          [] key = "backspace" ->
                IF w.CursorCol > 0
                THEN w.CursorCol > Len(winCurrentLine(w)) \/ ~rowIn
                ELSE w.CursorRow > 0 /\ w.CursorRow >= Len(w.Text)
          [] OTHER -> FALSE

\* EditorPane.deleteCharBack, where it indexes inside the text.
deleteCharBackJoin(w) ==
    IF w.CursorCol > 0 THEN winDeleteCharBack(w)
    ELSE IF w.CursorRow > 0
    THEN LET prevLine == w.Text[w.CursorRow]
         IN  [w EXCEPT !.Text = Take(w.Text, w.CursorRow - 1)
                                  \o << prevLine \o winCurrentLine(w) >>
                                  \o Drop(w.Text, w.CursorRow + 1),
                       !.CursorRow = @ - 1,
                       !.CursorCol = Len(prevLine),
                       !.Modified = TRUE]
    ELSE w

\* EditorPane.deleteCharForward
winDeleteCharForward(w) ==
    LET line == winCurrentLine(w)
    IN  IF w.CursorCol < Len(line)
        THEN [w EXCEPT !.Text[w.CursorRow + 1] = Take(line, w.CursorCol)
                                                  \o Drop(line, w.CursorCol + 1),
                       !.Modified = TRUE]
        ELSE IF w.CursorRow < Len(w.Text) - 1
        THEN [w EXCEPT !.Text = Take(w.Text, w.CursorRow)
                                   \o << line \o w.Text[w.CursorRow + 2] >>
                                   \o Drop(w.Text, w.CursorRow + 2),
                       !.Modified = TRUE]
        ELSE w

\* EditorPane.insertNewline, where it indexes inside the text.
insertNewline(w) ==
    LET line == winCurrentLine(w)
        col == Min(w.CursorCol, Len(line))
    IN  [w EXCEPT !.Text = Take(w.Text, w.CursorRow) \o << Take(line, col), Drop(line, col) >>
                              \o Drop(w.Text, w.CursorRow + 1),
                  !.CursorRow = @ + 1,
                  !.CursorCol = 0,
                  !.Modified = TRUE]

\* The keys of the navigation shared by every mode of HandleKey.
moveCursor(w, key) ==
    CASE key = "up" -> cursorUp(w)
      [] key = "down" -> cursorDown(w)
      [] key = "left" -> cursorLeft(w)
      [] key = "right" -> cursorRight(w)
      [] key = "home" -> [w EXCEPT !.CursorCol = 0]
      [] key = "end" -> [w EXCEPT !.CursorCol = Len(winCurrentLine(w))]
      [] OTHER -> w

CursorKeys == {"up", "down", "left", "right", "home", "end", "enter", "backspace",
               "delete", "runes"}

\* EditorPane.HandleKey with every key of the editor: the pane and the window
\* afterwards, or a panic.  A rune is the one that enters edit mode in a tracer.
HandleKeyAll(p, w, key) ==
    IF (w.Debugger \/ w.ReadOnly) /\ ~p.editMode
    THEN [pane |-> IF w.Debugger /\ key = "runes" THEN [p EXCEPT !.editMode = TRUE] ELSE p,
          win |-> moveCursor(w, key), panic |-> FALSE]
    ELSE IF IndexesOutside(w, key) THEN [pane |-> p, win |-> w, panic |-> TRUE]
    ELSE [pane |-> p,
          win |-> CASE key = "runes" -> winInsertChar(w, EditModeKey)
                    [] key = "enter" -> insertNewline(w)
                    [] key = "backspace" -> deleteCharBackJoin(w)
                    [] key = "delete" -> winDeleteCharForward(w)
                    [] OTHER -> moveCursor(w, key),
          panic |-> FALSE]

\* handleKey routes a key to the editor pane in focus; a panic ends the program.
CursorKey ==
    \E key \in CursorKeys :
        /\ EdKeyStep
        /\ ~leaderActive
        /\ FocusedPane(pm) # NoPane
        /\ pm.panes[FocusedPane(pm)].win # 0
        /\ LET id == FocusedPane(pm)
               p == pm.panes[id]
               r == HandleKeyAll(p, heap[p.win], key)
           IN  /\ Len(r.win.Text) <= MaxCursorLines
               /\ \A i \in 1..Len(r.win.Text) : Len(r.win.Text[i]) <= MaxWinLineLen
               /\ heap' = [heap EXCEPT ![p.win] = r.win]
               /\ pm' = [pm EXCEPT !.panes[id] = r.pane]
               /\ quit' = r.panic
               /\ path' = IF r.panic THEN "panic" ELSE "paneKey.editor"
        /\ NotWritten
        /\ UNCHANGED <<editors, tracerStack, tracerCurrent, sessVars, connected, ready,
                       client, waiting, leaderActive, frameVars, hsVars, modeVars>>

NextCursor ==
    \/ RideOpenWindowAt
    \/ RideUpdateWindowText
    \/ RideSetHighlightLine
    \/ RideCloseWindow
    \/ CursorKey

SpecCursor == Init /\ [][NextCursor]_vars

(***************************************************************************)
(* Part 14: one expression run without the UI (main.go: runExpr, called    *)
(* for -e, for each line of -stdin and by -link, on the client that        *)
(* ride.Connect returned).  The interpreter is free: it writes any frame   *)
(* at any time and may close the connection; what it wrote stays readable. *)
(***************************************************************************)
MaxRunFrames == 3

runOther == <<frameVars, hsVars, sessVars, connVars, edVars, ackVars, obsVars, width, height,
              paneMoveMode, confirmQuit, overlayVars, sockVars, loopVars>>

\* The frames the interpreter writes: a line that is no JSON, a frame that
\* starts as JSON and does not parse, the echo of the input, output, prompts
\* of every type, and another command.
RunFrames ==
    { LineFrame("hello"), JunkFrame("junk"),
      CmdFrame("AppendSessionOutput", [type |-> 14, result |-> "e"]),
      CmdFrame("AppendSessionOutput", [result |-> "r"]),
      CmdFrame("HadError", [error |-> 1]) }
    \cup { CmdFrame("SetPromptType", [type |-> t]) : t \in 0..4 }

\* runExpr: client.Send("Execute", ...); an error ends the program in log.Fatalf.
RunSend ==
    /\ runPc = "send"
    /\ \E ok \in BOOLEAN :
          IF ok THEN runPc' = "recv"
          ELSE /\ ~runUp
               /\ runPc' = "fatal"
    /\ UNCHANGED <<runWire, runUp, runSent, runOut, runOther>>

\* runExpr: one turn of its loop on what client.Recv() returned without an
\* error.  msg is nil for a frame that is no message, and msg.Command then
\* dereferences nil.
runExprTurn(r) ==
    IF ~r.isMsg THEN [pc |-> "panic", out |-> runOut]
    ELSE IF r.cmd = "AppendSessionOutput"
    THEN [pc |-> "recv",
          out |-> IF Has(r.args, "type") /\ r.args.type = 14 THEN runOut
                  ELSE IF Has(r.args, "result") THEN Append(runOut, r.args.result)
                  ELSE runOut]
    ELSE IF r.cmd = "SetPromptType"
    THEN [pc |-> IF Has(r.args, "type") /\ r.args.type = 1 THEN "done" ELSE "recv",
          out |-> runOut]
    ELSE [pc |-> "recv", out |-> runOut]

\* runExpr: client.Recv() returns the next frame, or an error once the
\* connection is closed and nothing is left to read (log.Fatalf).
RunRecv ==
    /\ runPc = "recv"
    /\ IF runWire # <<>>
       THEN LET t == runExprTurn(Recv(Head(runWire)))
            IN  /\ runPc' = t.pc
                /\ runOut' = t.out
                /\ runWire' = Tail(runWire)
       ELSE /\ ~runUp
            /\ runPc' = "fatal"
            /\ UNCHANGED <<runWire, runOut>>
    /\ UNCHANGED <<runUp, runSent, runOther>>

\* The interpreter writes a frame.
InterpWrites ==
    /\ runUp
    /\ runSent < MaxRunFrames
    /\ \E f \in RunFrames : runWire' = Append(runWire, f)
    /\ runSent' = runSent + 1
    /\ UNCHANGED <<runPc, runUp, runOut, runOther>>

\* The interpreter closes the connection.
InterpCloses ==
    /\ runUp
    /\ runUp' = FALSE
    /\ UNCHANGED <<runPc, runWire, runSent, runOut, runOther>>

NextRun == RunSend \/ RunRecv \/ InterpWrites \/ InterpCloses

SpecRun == Init /\ [][NextRun]_vars

\* runExpr runs in the main goroutine and is never held back when it can
\* take a step; nothing obliges the interpreter to write or to close.
SpecRunLive == SpecRun /\ WF_vars(RunSend) /\ WF_vars(RunRecv)

(***************************************************************************)
(* Claims.                                                                 *)
(***************************************************************************)

\* C1: once a SaveChanges for window t is written, no CloseWindow for t is
\* written until that save was answered with err = 0: whenever a step writes
\* CloseWindow{win: t}, no SaveChanges for t is unanswered and the last answer
\* for t, if any, did not report an error.
CloseWaitsForSaveReply ==
    \A i \in 1..Len(sent) :
        sent[i].cmd = "CloseWindow"
        => unacked[sent[i].args.win] = 0 /\ ~saveFailed[sent[i].args.win]

\* C2 as stated: the record of window t leaves the editor table exactly when
\* a CloseWindow for t is received, and then no SaveChanges for t is
\* unanswered or answered with an error.
RecordRemovedAfterSaveSettled ==
    [][ \A t \in Tokens :
          (t \in DOMAIN editors /\ t \notin DOMAIN editors')
          <=> ( /\ t \in DOMAIN editors
                /\ CloseWindowEvent(t)
                /\ unacked[t] = 0
                /\ ~saveFailed[t] ) ]_vars

\* C2: the record of window t leaves the editor table exactly when a
\* CloseWindow for t is received from the interpreter, whether or not a
\* SaveChanges for t is still unanswered; writing CloseWindow, closing a
\* pane, a disconnect or a reconnect never removes a record.
RecordRemovedOnlyByCloseWindow ==
    [][ /\ \A t \in Tokens :
              (t \in DOMAIN editors /\ t \notin DOMAIN editors')
              <=> (t \in DOMAIN editors /\ CloseWindowEvent(t))
        /\ path' \notin {"closeWindow", "closeWindow.unknown"}
           => DOMAIN editors \subseteq DOMAIN editors' ]_vars

\* The interpreter closed a window whose SaveChanges it had not answered.
RecordRemovedWhileSavePending ==
    /\ path = "closeWindow"
    /\ \E t \in Tokens : t \notin DOMAIN editors /\ unacked[t] > 0

\* C3: a token is in the tracer stack exactly when the editor table holds a
\* record for it whose debugger flag is set.
TracerStackMatchesDebugger ==
    \A t \in Tokens :
        InSeq(tracerStack, t) <=> (t \in DOMAIN editors /\ heap[editors[t]].Debugger)

ExecutePaths == {"execute.input", "execute.edited", "execute.history"}

\* C4: executing an edited history row L (not the last row) whose text T is
\* not blank, while ready, leaves row L with the text it had before its first
\* edit and its edited flag clear, makes T the text of the last line, and
\* puts the caret on the last line.
ExecuteRestoresHistoryRow ==
    [][ ( /\ path' \in ExecutePaths \cup {"execute.blank", "execute.blocked"}
          /\ ready
          /\ cursorRow < Len(lines) - 1
          /\ lines[cursorRow + 1].Edited
          /\ TrimSpace(currentLine(Buf)) # <<>> )
        => ( /\ Len(lines') = Len(lines)
             /\ lines'[cursorRow + 1].Text = pristine[cursorRow + 1]
             /\ ~lines'[cursorRow + 1].Edited
             /\ Last(lines').Text = currentLine(Buf)
             /\ cursorRow' = Len(lines') - 1 ) ]_vars

\* An edited history row was executed and its text differs from what was sent.
ExecutedEditedRow ==
    /\ path = "execute.edited"
    /\ cursorRow = Len(lines) - 1
    /\ \E i \in 1..(Len(lines) - 1) : ~lines[i].Edited /\ lines[i].Text # Last(lines).Text

\* C5: an AppendSessionOutput is dropped exactly when it has type 14 and its
\* result is the payload of the most recent Execute, no output having been
\* dropped for that Execute yet, or when it has type 14 and is the shutdown
\* expression; any other output with a result is appended.
OnlyOwnEchoDropped ==
    [][ \A args \in OutputArgs :
          (OutputEvent(args) /\ Has(args, "result"))
          => ( (lines' = lines)
               <=> ( /\ Has(args, "type")
                     /\ args.type = 14
                     /\ \/ echoDue /\ args.result = sentExecute
                        \/ TrimSpace(args.result) = OffExpr ) ) ]_vars

IsLine(f, t) == f.form = "line" /\ f.text = t

IsCmd(f, c) == f.form = "cmd" /\ f.cmd = c

\* C6: Connect sends nothing before a first frame equal to SupportedProtocols=2
\* has arrived; it sends SupportedProtocols=2, UsingProtocol=2, Identify and
\* Connect in that order, the last two only after a second frame equal to
\* UsingProtocol=2; it is ready only after a SetPromptType with a type above 0;
\* and when either expected line differs it fails, has closed the connection
\* and has sent nothing after the offending frame.
HandshakeOrder ==
    /\ Len(hsSent) <= 4
    /\ Len(hsSent) >= 1 => IsLine(hsSent[1], SupportedLine)
    /\ Len(hsSent) >= 2 => IsLine(hsSent[2], UsingLine)
    /\ Len(hsSent) >= 3 => IsCmd(hsSent[3], "Identify") /\ hsSent[3].args.apiVersion = 1
                           /\ hsSent[3].args.identity = 1
    /\ Len(hsSent) >= 4 => IsCmd(hsSent[4], "Connect") /\ hsSent[4].args.remoteId = 2
    /\ Len(hsSent) >= 1 => Len(hsRecvd) >= 1 /\ IsLine(hsRecvd[1], SupportedLine)
    /\ Len(hsSent) >= 3 => Len(hsRecvd) >= 2 /\ IsLine(hsRecvd[2], UsingLine)
    /\ hsPc = "ready"
       => /\ Len(hsSent) = 4
          /\ ~hsClosed
          /\ IsCmd(Last(hsRecvd), "SetPromptType")
          /\ Has(Last(hsRecvd).args, "type")
          /\ Last(hsRecvd).args.type > 0
    /\ (Len(hsRecvd) >= 1 /\ ~IsLine(hsRecvd[1], SupportedLine))
       => hsPc = "failed" /\ hsClosed /\ hsSent = <<>>
    /\ (Len(hsRecvd) >= 2 /\ ~IsLine(hsRecvd[2], UsingLine))
       => hsPc = "failed" /\ hsClosed /\ Len(hsSent) = 2
    /\ hsClosed <=> hsPc = "failed"

\* Connect returned a ready client after draining other messages first.
HandshakeReady ==
    /\ hsPc = "ready"
    /\ Len(hsRecvd) > 3
    /\ Len(hsSent) = 4

\* The frames written and not yet read, as bytes.
Unread == [i \in 1..(Len(framesSent) - Len(framesRecv)) |->
              sendRaw(framesSent[Len(framesRecv) + i])]

\* C7: decoding what encode produced returns the payload, the empty one
\* included, and consumes exactly the bytes of that frame, so consecutive
\* frames of one stream decode to the same payloads in the same order.
RoundTrip ==
    /\ ~recvErr
    /\ Len(framesRecv) <= Len(framesSent)
    /\ framesRecv = Take(framesSent, Len(framesRecv))
    /\ wire = Flatten(Unread)

\* Two frames were decoded: an empty payload, then one that starts with the tag.
RoundTripDone ==
    /\ wire = <<>>
    /\ Len(framesRecv) = 2
    /\ framesRecv[1] = <<>>
    /\ HasPrefix(framesRecv[2], rideHeader)
    /\ framesRecv[2] # rideHeader

InputLineNeverEdited ==
    /\ Len(lines) >= 1
    /\ ~Last(lines).Edited
    /\ Last(lines).Original = <<>>

\* C9: the buffer always has at least one line; the last line becomes marked
\* edited only by an editing key pressed with the caret on it, every line the
\* program appends is unmarked, and execute of a non-blank line leaves the
\* last line unmarked.
InputLineEditedOnlyByKeys ==
    [][ /\ Len(lines') >= 1
        /\ Last(lines').Edited
           => \/ Len(lines') = Len(lines) /\ Last(lines).Edited
              \/ /\ path' = "sessionKey"
                 /\ Len(lines') = Len(lines)
                 /\ cursorRow = Len(lines) - 1
        /\ Last(lines').Edited => Last(lines').Original = pristine'[Len(lines')]
        /\ path' \in ExecutePaths => ~Last(lines').Edited ]_vars

\* The user typed on the input line, which is now marked edited.
InputLineEdited ==
    /\ path = "sessionKey"
    /\ cursorRow = Len(lines) - 1
    /\ Last(lines).Edited
    /\ Last(lines).Original # Last(lines).Text

\* C10: SetPromptType with type 0 makes the session busy and leaves lines and
\* caret alone; with a type above 0 it makes the session ready and appends
\* exactly one line, the six-space indent, with the caret at its end.
PromptTypeEffect ==
    [][ /\ path' = "prompt.0"
           => /\ ~ready'
              /\ lines' = lines
              /\ cursorRow' = cursorRow
              /\ cursorCol' = cursorCol
        /\ path' \in {"prompt.1", "prompt.4"}
           => /\ ready'
              /\ lines' = Append(lines, Line(aplIndent))
              /\ Len(Last(lines').Text) = 6
              /\ cursorRow' = Len(lines') - 1
              /\ cursorCol' = Len(Last(lines').Text) ]_vars

\* A busy session with a typed line was made ready and got its input line.
PromptOpenedInputLine ==
    /\ path \in {"prompt.1", "prompt.4"}
    /\ ready
    /\ Len(lines) >= 2
    /\ lines[Len(lines) - 1].Text # aplIndent
    /\ Last(lines) = Line(aplIndent)
    /\ cursorRow = Len(lines) - 1
    /\ cursorCol = 6

\* C11: every pane is at least as wide as its minimum width and at least as
\* high as its minimum height, in every reachable state: after creation at
\* any terminal size, after drags, after the keys of the pane-move mode and
\* after resizes of the terminal.
PaneSizeAtLeastMin ==
    \A i \in DOMAIN pm.panes :
        pm.panes[i].Width >= pm.panes[i].MinW /\ pm.panes[i].Height >= pm.panes[i].MinH

\* C12: at most one pane is focused, the z-order is a permutation of the ids
\* of the existing panes, and a focused pane is the last element of the
\* z-order.
FocusAndZOrder ==
    /\ Cardinality({ i \in DOMAIN pm.panes : pm.panes[i].Focused }) <= 1
    /\ Len(pm.zOrder) = Cardinality(DOMAIN pm.panes)
    /\ { pm.zOrder[i] : i \in 1..Len(pm.zOrder) } = DOMAIN pm.panes
    /\ \A i \in DOMAIN pm.panes :
          pm.panes[i].Focused => pm.zOrder # <<>> /\ Last(pm.zOrder) = i

\* C13: when the reader reports the end of the stream and the last execute
\* was not the shutdown expression, the program does not quit, every session
\* line and every editor-window record stays as it was, the disconnect marker
\* is appended after the existing lines, and the client is neither connected
\* nor ready; from then on the client stays not connected until a reconnect
\* succeeds, and a reconnect request made while not connected is not refused.
DisconnectKeepsState ==
    [][ /\ (Disconnect /\ ~pendingQuit) =>
              /\ ~quit'
              /\ Len(lines') = Len(lines) + 2
              /\ Take(lines', Len(lines)) = lines
              /\ lines'[Len(lines) + 1].Text = DisconnectedText
              /\ editors' = editors
              /\ heap' = heap
              /\ ~connected'
              /\ ~ready'
        /\ (~connected /\ connected') => path' = "reconnect.connected"
        /\ (LeaderReconnect /\ ~connected) =>
              path' \in {"reconnect.connected", "reconnect.failed"} ]_vars

\* A reconnect succeeded after a disconnect that left a window record and the
\* marker behind.
ReconnectedAfterDisconnect ==
    /\ path = "reconnect.connected"
    /\ editors # << >>
    /\ \E i \in 2..Len(lines) : lines[i].Text = DisconnectedText /\ lines[1].Text = aplIndent

\* C14: a disconnect ends the program exactly when the payload of the most
\* recent execute of this client is the shutdown expression; after any other
\* execute, or none, it leaves the program running, and nothing but an
\* execute (in particular no echo of input entered elsewhere) changes what
\* the next disconnect will do.
QuitOnDisconnectIffShutdown ==
    [][ /\ Disconnect => (quit' <=> TrimSpace(sentExecute) = OffExpr)
        /\ (pendingQuit' # pendingQuit) =>
              path' \in {"execute.input", "execute.edited", "execute.history"} ]_vars

\* The program ended on a disconnect after this client executed the shutdown
\* expression.
QuitAfterShutdownExpr ==
    /\ quit
    /\ path = "error.quit"
    /\ TrimSpace(sentExecute) = OffExpr

\* C15: every successful reconnect starts a fresh receive worker on the new
\* connection and has the client send GetWindowLayout on that connection.
ReconnectAsksWindowLayout ==
    [][ (LeaderReconnect /\ path' = "reconnect.connected") =>
            /\ client' # client
            /\ client' \in waiting'
            /\ \E i \in 1..Len(sent') : sent'[i].cmd = "GetWindowLayout" ]_vars

\* The fresh-worker half of C15 alone.
ReconnectStartsWorker ==
    [][ (LeaderReconnect /\ path' = "reconnect.connected") =>
            /\ client' # client
            /\ client' \in waiting' ]_vars

\* C16: no frame received from the peer ends the event loop; it ends only on
\* a quit the user confirmed and on a disconnect after the shutdown
\* expression.
OnlyQuitAndShutdownTerminate ==
    [][ (quit' /\ ~quit) => path' \in {"quit.confirmed", "error.quit"} ]_vars

\* C17: a ReplySaveChanges for window t with err other than 0 clears
\* PendingClose of t, leaves Modified of t as it was (a modified window stays
\* modified), keeps the record and every pane, and writes no message.
FailedSaveKeepsWindow ==
    [][ \A t \in Tokens : \A ok \in BOOLEAN :
          (ReplyEvent(t, 1, ok) /\ t \in DOMAIN editors) =>
              /\ t \in DOMAIN editors'
              /\ editors' = editors
              /\ ~heap'[editors[t]].PendingClose
              /\ heap'[editors[t]].Modified = heap[editors[t]].Modified
              /\ heap'[editors[t]].Text = heap[editors[t]].Text
              /\ pm' = pm
              /\ tracerStack' = tracerStack
              /\ sent' = <<>> ]_vars

\* A save that a close was waiting for failed: the window is still there,
\* modified, with its pane, and no close is pending.
SaveFailedWindowOpen ==
    /\ path = "replySaveChanges.failed"
    /\ \E t \in DOMAIN editors :
          /\ saveFailed[t]
          /\ heap[editors[t]].Modified
          /\ ~heap[editors[t]].PendingClose
          /\ EditorId(t) \in DOMAIN pm.panes

\* C18: with the tracer pane focused and in edit mode, Escape puts the pane
\* back in tracer mode, writes neither SaveChanges nor CloseWindow and leaves
\* the tracer stack as it is.
EscLeavesTracerEditMode ==
    [][ (/\ KeyEsc
         /\ FocusedPane(pm) = TracerId
         /\ pm.panes[TracerId].editMode) =>
            /\ TracerId \in DOMAIN pm'.panes
            /\ ~pm'.panes[TracerId].editMode
            /\ sent' = <<>>
            /\ tracerStack' = tracerStack ]_vars

\* C19: a key given to an editor pane that shows a debugger window and is not
\* in edit mode leaves the text of the window as it is; a pane enters edit
\* mode only by a key given to it, and that key changes no text either.
TracerModeKeepsText ==
    [][ \A id \in DOMAIN pm.panes :
          LET p == pm.panes[id]
          IN  (p.win # 0 /\ heap[p.win].Debugger /\ ~p.editMode) =>
                /\ (PaneKey /\ FocusedPane(pm) = id) =>
                      heap'[p.win].Text = heap[p.win].Text
                /\ (id \in DOMAIN pm'.panes /\ pm'.panes[id].win = p.win
                       /\ pm'.panes[id].editMode) =>
                      /\ PaneKey
                      /\ FocusedPane(pm) = id
                      /\ heap'[p.win].Text = heap[p.win].Text ]_vars

\* A key was given to the tracer pane in tracer mode.
KeyGivenInTracerMode ==
    /\ path = "paneKey.editor"
    /\ FocusedPane(pm) = TracerId
    /\ heap[pm.panes[TracerId].win].Debugger
    /\ ~pm.panes[TracerId].editMode

\* C20: for every window of the editor table and every line, ToggleStop of
\* that line applied twice leaves a stop list with the same entries, each as
\* often as before, and leaves Modified set.
ToggleStopTwice ==
    \A t \in DOMAIN editors : \A line \in StopLines :
        LET w == heap[editors[t]]
            w2 == ToggleStop(ToggleStop(w, line), line)
            Count(st, v) == Cardinality({ j \in 1..Len(st) : st[j] = v })
        IN  /\ \A v \in StopLines : Count(w2.Stop, v) = Count(w.Stop, v)
            /\ w2.Modified

\* The same statement for the windows whose stop list names no line twice.
ToggleStopTwiceNoRepeat ==
    \A t \in DOMAIN editors : \A line \in StopLines :
        LET w == heap[editors[t]]
            w2 == ToggleStop(ToggleStop(w, line), line)
            Count(st, v) == Cardinality({ j \in 1..Len(st) : st[j] = v })
        IN  (\A v \in StopLines : Count(w.Stop, v) <= 1) =>
                /\ \A v \in StopLines : Count(w2.Stop, v) = Count(w.Stop, v)
                /\ w2.Modified

\* C21: with exactly two panes a and b, Focus(a), Focus(b), Focus(a) leaves
\* the same z-order and the same focused pane as Focus(a), Focus(b),
\* FocusPrev.
FocusPrevIsFocusOther ==
    \A a \in DOMAIN pm.panes : \A b \in DOMAIN pm.panes :
        (a # b /\ DOMAIN pm.panes = {a, b}) =>
            LET m2 == Focus(Focus(pm, a), b)
            IN  /\ Focus(m2, a).zOrder = FocusPrev(m2).zOrder
                /\ Focus(m2, a).focusedID = FocusPrev(m2).focusedID

\* The same statement for the pane managers whose z-order names no pane
\* twice.
FocusPrevIsFocusOtherNoRepeat ==
    \A a \in DOMAIN pm.panes : \A b \in DOMAIN pm.panes :
        (a # b /\ DOMAIN pm.panes = {a, b} /\ Len(pm.zOrder) = 2) =>
            LET m2 == Focus(Focus(pm, a), b)
            IN  /\ Focus(m2, a).zOrder = FocusPrev(m2).zOrder
                /\ Focus(m2, a).focusedID = FocusPrev(m2).focusedID
                /\ Focus(m2, a).panes = FocusPrev(m2).panes

SocketRequestsSerialised ==
    /\ Cardinality({ c \in Clients : sockPc[c] = "recv" }) <= 1
    /\ Len(sockExec) + (IF sockInterp.req = NoReq THEN 0 ELSE 1) <= 1
    /\ \A c \in Clients : \A i \in 1..Len(sockBuf[c]) : sockBuf[c][i] = CurReq(c)

\* Client 1 has its reply, with output in it, while client 2 is collecting
\* its own.
TwoClientsServed ==
    /\ sockPc[1] = "write"
    /\ sockBuf[1] = << <<1, 1>> >>
    /\ sockPc[2] = "recv"
    /\ sockBuf[2] = << <<2, 1>> >>

\* The events of worker k among those handled, in the order of handling.
HandledOf(k) == SelectSeq(handled, LAMBDA h : h[1] = k)

\* C24: the event loop handles the messages of a reader worker in exactly
\* the order the worker received them, none left out and none twice, and
\* the worker itself changes no state of the UI.
RideEventsInOrder ==
    \A k \in Conns : \A i \in 1..Len(HandledOf(k)) : HandledOf(k)[i] = <<k, i>>

\* Up to the first reconnect the order is kept.
RideEventsInOrderFirstConn == client = 1 => RideEventsInOrder

\* A step of a reader worker changes nothing but the worker, its channel
\* and the events under way.
ReaderKeepsUiState ==
    [][(\E k \in Conns : ReaderRecv(k) \/ ReaderHandOff(k))
          => UNCHANGED <<sessVars, connVars, edVars, ackVars, obsVars, loopOther, mMsgs, handled>>]_vars

\* What C25 says of a CloseWindow for t, from the state before to the one
\* after.
tracerWindowClosed(t) ==
    /\ ~InSeq(tracerStack', t)
    /\ tracerStack' = RemoveFirst(tracerStack, t)
    /\ IF tracerStack' = <<>>
       THEN /\ tracerCurrent' = 0
            /\ TracerId \notin DOMAIN pm'.panes
       ELSE IF tracerCurrent = t
       THEN tracerCurrent' = Last(tracerStack')
       ELSE tracerCurrent' = tracerCurrent

\* C25: CloseWindow for a token t of the tracer stack removes t from the
\* stack; if t was surfaced and the stack is not empty afterwards, its last
\* element becomes surfaced; if t was not surfaced, the surfaced token stays;
\* if the stack is empty afterwards, the tracer pane is removed and no token
\* is current.
CloseWindowPopsTracer ==
    [][\A t \in Tokens :
          (CloseWindowEvent(t) /\ InSeq(tracerStack, t)) => tracerWindowClosed(t)]_vars

NoRepeat(q) == \A i, j \in 1..Len(q) : q[i] = q[j] => i = j

\* The same for a tracer stack that names no token twice.
CloseWindowPopsTracerNoRepeat ==
    [][\A t \in Tokens :
          (CloseWindowEvent(t) /\ InSeq(tracerStack, t) /\ NoRepeat(tracerStack))
             => tracerWindowClosed(t)]_vars

\* What C26 says of a state.
tracerPaneAsStated ==
    /\ Cardinality({ i \in 1..Len(pm.zOrder) : pm.zOrder[i] = TracerId }) <= 1
    /\ TracerId \in DOMAIN pm.panes <=> tracerStack # <<>>
    /\ IF tracerStack # <<>>
       THEN InSeq(tracerStack, tracerCurrent) /\ tracerCurrent \in DOMAIN editors
       ELSE tracerCurrent = 0

\* C26: there is at most one tracer pane; it exists exactly when the tracer
\* stack is not empty, and then the current token is an element of the stack
\* with a record in the editor table; when the stack is empty no token is
\* current.
OneTracerPane == tracerPaneAsStated

\* No step between states whose tracer stacks name no token twice breaks it.
OneTracerPaneNoRepeat ==
    [][(tracerPaneAsStated /\ NoRepeat(tracerStack) /\ NoRepeat(tracerStack'))
          => tracerPaneAsStated']_vars

SendsExecute(out) == \E i \in 1..Len(out) : out[i].cmd = "Execute"

\* C27: a step that sends Execute is taken when ready and leaves the client
\* not ready; the client becomes ready again only by a SetPromptType with a
\* type above 0 or by a successful reconnect, so no Execute is sent in
\* between; an execute while not ready sends nothing and leaves the session
\* lines and the caret as they are.
ExecuteWaitsForPrompt ==
    [][ /\ SendsExecute(sent') => (ready /\ ~ready')
        /\ (~ready /\ ready') => path' \in {"prompt.1", "prompt.4", "reconnect.connected"}
        /\ path' = "execute.blocked"
              => /\ ~ready
                 /\ sent' = <<>>
                 /\ lines' = lines
                 /\ cursorRow' = cursorRow
                 /\ cursorCol' = cursorCol ]_vars

\* Enter was pressed on a line with text while the answer to the last
\* Execute was still due.
ExecuteBlockedWhileBusy ==
    /\ path = "execute.blocked"
    /\ connected
    /\ ~ready
    /\ sentExecute # <<>>
    /\ TrimSpace(currentLine(Buf)) # <<>>

\* C28: UpdateWindow for a token of the editor table replaces the fields the
\* message carries among text, currentRow, debugger and stop, and leaves every
\* other field of the record and everything else as it is; for a token the
\* table does not hold, nothing changes.
UpdateWindowFrame ==
    [][\A args \in UpdateFieldArgs :
          UpdateWindowEvent(args) =>
             /\ UNCHANGED <<editors, tracerStack, tracerCurrent, pm, sessVars, connVars>>
             /\ IF args.token \notin DOMAIN editors
                THEN UNCHANGED heap
                ELSE LET obj == editors[args.token]
                         w == heap[obj]
                         nw == heap'[obj]
                     IN  /\ \A o \in 1..Len(heap) : o # obj => heap'[o] = heap[o]
                         /\ Len(heap') = Len(heap)
                         /\ nw.Text = IF Has(args, "text") THEN args.text ELSE w.Text
                         /\ nw.CurrentRow = IF Has(args, "currentRow") THEN args.currentRow
                                            ELSE w.CurrentRow
                         /\ nw.Debugger = IF Has(args, "debugger") THEN args.debugger # 0
                                          ELSE w.Debugger
                         /\ nw.Stop = IF Has(args, "stop") THEN args.stop ELSE w.Stop
                         /\ nw.Token = w.Token
                         /\ nw.Name = w.Name
                         /\ nw.EntityType = w.EntityType
                         /\ nw.ReadOnly = w.ReadOnly
                         /\ nw.Modified = w.Modified
                         /\ nw.PendingClose = w.PendingClose
                         /\ nw.CursorRow = w.CursorRow
                         /\ nw.CursorCol = w.CursorCol ]_vars

\* A window with a name, read-only, edited or waiting to close, took an
\* update that left some of the four fields out.
PartialUpdateApplied ==
    /\ path = "updateWindow"
    /\ \E t \in DOMAIN editors :
          LET w == heap[editors[t]]
          IN  /\ w.Name = "f"
              /\ w.EntityType = 1
              /\ w.Modified
              /\ w.PendingClose
              /\ w.Stop = << 0 >>
              /\ w.CurrentRow = 1

\* What C29 says of a key taken while the quit confirmation is up.
confirmQuitKeyConsumed ==
    /\ ~confirmQuit'
    /\ path' \in {"quit.confirmed", "quit.cancelled"}
    /\ quit' <=> path' = "quit.confirmed"
    /\ UNCHANGED <<sessVars, connected, ready, client, waiting, leaderActive, edVars, ackVars,
                   width, height, paneMoveMode, overlayVars>>

\* C29: while the quit confirmation is up and backtick mode is not active,
\* the next key of any kind is consumed by it: y exits, every other key, the
\* backtick key and the leader key among them, cancels and does nothing else.
ConfirmQuitConsumesKey ==
    [][(confirmQuit /\ ~backtickActive /\ nKeys' = nKeys + 1) => confirmQuitKeyConsumed]_vars

\* The same for every key but the backtick.
ConfirmQuitConsumesOtherKeys ==
    [][(confirmQuit /\ ~backtickActive /\ nKeys' = nKeys + 1 /\ path' # "backtick.armed")
          => confirmQuitKeyConsumed]_vars

\* At least 5 columns of pane p and its title row are inside a screen of sw
\* columns and sh rows.
OnScreen(p, sw, sh) ==
    /\ Min(p.X + p.Width, sw) - Max(p.X, 0) >= 5
    /\ p.Y >= 0
    /\ p.Y < sh

\* Pane i had its 5 columns and its title row on screen and has them still.
staysOnScreen(i) ==
    (i \in DOMAIN pm.panes /\ OnScreen(pm.panes[i], pm.screenW, pm.screenH))
        => OnScreen(pm'.panes[i], pm'.screenW, pm'.screenH)

\* C30: through every step of a mouse drag, whatever the mode and the pointer
\* position, and through every resize of the terminal, every pane keeps at
\* least 5 of its columns and its title row inside the screen.
PanesStayOnScreen ==
    [][path' \in {"mouse", "resize"} => \A i \in DOMAIN pm'.panes : staysOnScreen(i)]_vars

\* The same for the steps in which no pane is being resized by the pointer.
PanesStayOnScreenNoResizeDrag ==
    [][(/\ path' \in {"mouse", "resize"}
        /\ \A i \in DOMAIN pm.panes :
              pm.panes[i].dragging => pm.panes[i].dragMode = "Move")
          => \A i \in DOMAIN pm'.panes : staysOnScreen(i)]_vars

\* The ceiling the specification gives as its example: 64 MiB.
Ceiling == [hi |-> 1024, lo |-> 0]

\* The length word at the head of stream r exceeds the ceiling.
Oversize(r) ==
    /\ Len(r) >= 4
    /\ LET w == FromBigEndian32(Take(r, 4))
       IN  w.hi > Ceiling.hi \/ (w.hi = Ceiling.hi /\ w.lo > Ceiling.lo)

\* Stream r ends before a length word of at least 4 and the length - 4 bytes
\* it announces.
ShortStream(r) ==
    \/ Len(r) < 4
    \/ LET w == FromBigEndian32(Take(r, 4))
       IN  /\ w.hi > 0 \/ w.lo >= 4
           /\ w.hi > 0 \/ Len(r) - 4 < w.lo - 4

\* The errors of recvRaw that report the end of the stream.
ShortRead == {"read length", "read payload"}

\* C31: a decode fails with a short-read error whenever the stream ends
\* before the length word and the announced bytes were read, and with an
\* oversize error whenever the length word exceeds the ceiling; neither
\* returns a payload.
DecodeErrorsAsStated ==
    [][DecodeOne =>
          /\ (ShortStream(wire) /\ ~Oversize(wire))
                => path' \in ShortRead /\ framesRecv' = framesRecv
          /\ Oversize(wire) => path' = "oversize" /\ framesRecv' = framesRecv]_vars

\* C31, the part the code keeps: a stream that ends early gives a short-read
\* error and no payload, whatever the length word; a complete frame is
\* returned.
ShortReadFails ==
    [][DecodeOne =>
          /\ ShortStream(wire) => path' \in ShortRead /\ framesRecv' = framesRecv
          /\ ~ShortStream(wire) /\ FromBigEndian32(Take(wire, 4)).lo >= 4
                => path' = "decoded" /\ Len(framesRecv') = Len(framesRecv) + 1]_vars

\* The search panes on screen.
SearchPanes == { i \in DOMAIN pm.panes : i[1] \in SearchKinds }

\* The selection of pane p is an index of its list, or 0 when the list is empty.
SelectionValid(p) ==
    IF p.filtered = <<>> THEN p.selected = 0
    ELSE p.selected >= 0 /\ p.selected < Len(p.filtered)

\* The selected row of pane p is one of the rows the pane draws.
SelectionVisible(p) ==
    p.filtered # <<>> => p.selected >= p.scroll /\ p.selected < p.scroll + ListH(p)

\* C32: in every search pane, after any typed characters, backspaces and
\* Up/Down keys, the selection is an index of the filtered list (0 when it
\* is empty) and the selected row is inside the rows the pane displays.
SearchSelectionShown ==
    \A i \in SearchPanes : SelectionValid(pm.panes[i]) /\ SelectionVisible(pm.panes[i])

\* C32, the part that holds in every pane: the selection is an index of the
\* filtered list, or 0 when the list is empty.
SearchSelectionValid == \A i \in SearchPanes : SelectionValid(pm.panes[i])

\* C32 for the command palette, whose Render scrolls to the selection.
PaletteSelectionShown ==
    SearchId("commands") \in DOMAIN pm.panes
        => /\ SelectionValid(pm.panes[SearchId("commands")])
           /\ SelectionVisible(pm.panes[SearchId("commands")])

\* Next and previous on popup a as the claim states them.
cyclesAsStated(a) ==
    LET n == Len(a.Options)
    IN  /\ a.Selected \in 0..(n - 1)
        /\ CycleNext(a).Selected = IF a.Selected = n - 1 THEN 0 ELSE a.Selected + 1
        /\ CyclePrev(a).Selected = IF a.Selected = 0 THEN n - 1 ELSE a.Selected - 1
        /\ CyclePrev(CycleNext(a)) = a
        /\ CycleNext(CyclePrev(a)) = a

\* C33: the selected index of an open popup with n >= 1 options is always in
\* 0..n-1; a popup opens with index 0; next goes from n-1 to 0 and otherwise
\* one up, previous from 0 to n-1 and otherwise one down; next then previous,
\* and previous then next, restore the index.
PopupSelectionCycles ==
    /\ [](autocomplete.open => Len(autocomplete.Options) >= 1 /\ cyclesAsStated(autocomplete))
    /\ [][path' = "autocomplete.popup" => autocomplete'.open /\ autocomplete'.Selected = 0]_vars
    /\ [][autocomplete.open /\ autocomplete'.open /\ path' = "autocomplete.key"
             => autocomplete' \in {CycleNext(autocomplete), CyclePrev(autocomplete)}]_vars

\* A navigation key left the last of three options selected.
PopupOnLastOfThree ==
    /\ autocomplete.open
    /\ Len(autocomplete.Options) = 3
    /\ autocomplete.Selected = 2
    /\ path = "autocomplete.key"

\* An event of a worker other than the one of m.msgs, handled while the model
\* is connected, changes neither the connection state nor the session.
NoStaleEventApplied ==
    [][(/\ Len(handled') > Len(handled)
        /\ Last(handled')[1] # mMsgs
        /\ connected)
          => connected' /\ lines' = lines]_vars

\* No worker of an earlier connection is blocked on its channel with no
\* waitForRide left to receive from it.
NoReaderStuck == \A k \in Conns : (k < mMsgs /\ waiters[k] = 0) => rdChan[k] = <<>>

\* C34: after a successful reconnect no event of the previous connection's
\* reader, its read error in particular, is applied to the model (it stays
\* connected and gets no disconnect marker), and no reader stays blocked on
\* its channel for good.
ReconnectDropsOldReader == NoStaleEventApplied /\ []NoReaderStuck

\* C35: the tracer stack never holds a token twice and the z-order never
\* holds a pane ID twice, also when OpenWindow arrives for a token that has
\* a record already.
NoTokenOrPaneTwice == NoRepeat(tracerStack) /\ NoRepeat(pm.zOrder)

\* C35 for the tracer stack alone.
NoTokenTwice == NoRepeat(tracerStack)

\* C35 for the z-order alone.
NoPaneTwice == NoRepeat(pm.zOrder)

\* C35 without a repeated OpenWindow: a step that opens no window for a token
\* that has a record adds no repetition.
NoRepeatUnlessReopened ==
    [][(/\ NoRepeat(tracerStack)
        /\ NoRepeat(pm.zOrder)
        /\ ~(path' = "openWindow" /\ DOMAIN editors' = DOMAIN editors))
          => NoRepeat(tracerStack') /\ NoRepeat(pm'.zOrder)]_vars


\* A step that handles a ReplySaveChanges with err = 0 for window t.
SaveAcked(t) ==
    /\ path' = "replySaveChanges.ok"
    /\ Len(saveQueue'[t]) < Len(saveQueue[t])

\* The text and stop list of window t are those of the SaveChanges that the
\* reply now handled answers.
AsSaved(t) ==
    LET w == heap[editors[t]]
        s == Head(saveQueue[t])
    IN  w.Text = s.text /\ w.Stop = s.stop

\* C36: a CloseWindow sent for a window the user modified goes out with the
\* window's text and stop list equal to those of the last SaveChanges
\* acknowledged with err = 0; when the window was edited after the
\* SaveChanges was sent and before its reply arrived, the reply keeps the
\* window modified and sends no CloseWindow.
CloseSendsSavedText ==
    [][\A t \in Tokens :
          (/\ SaveAcked(t)
           /\ t \in DOMAIN editors
           /\ heap[editors[t]].Modified
           /\ ~AsSaved(t))
             => /\ heap'[editors[t]].Modified
                /\ \A i \in 1..Len(sent') : sent'[i] # CloseWindowMsg(t)]_vars

\* C36 where nothing was edited in between: the reply to the save of a
\* pending close clears the modified flag and sends the CloseWindow.
CloseAfterSave ==
    [][\A t \in Tokens :
          (/\ SaveAcked(t)
           /\ t \in DOMAIN editors
           /\ heap[editors[t]].PendingClose
           /\ AsSaved(t)
           /\ connected')
             => /\ ~heap'[editors[t]].Modified
                /\ sent' \in {<<>>, << CloseWindowMsg(t) >>}]_vars


\* C37: between the interpreter's OpenWindow for a token and its confirming
\* CloseWindow the client writes at most one CloseWindow for that token,
\* however often the close key is pressed meanwhile.
AtMostOneCloseWindow == \A t \in Tokens : closeSent[t] <= 1

\* C37 for a window with a save in flight: while a SaveChanges of the window
\* is unanswered and its close is pending, a close key writes no CloseWindow.
NoCloseWhileSaving ==
    [][\A t \in Tokens :
          (/\ t \in DOMAIN editors
           /\ heap[editors[t]].PendingClose
           /\ path' = "esc.closeEditor")
             => closeSent'[t] = closeSent[t]]_vars


\* The cursor of window w is on a line of its text and within that line.
CursorInText(w) ==
    /\ 0 <= w.CursorRow
    /\ w.CursorRow < Len(w.Text)
    /\ 0 <= w.CursorCol
    /\ w.CursorCol <= Len(winCurrentLine(w))

\* The window objects shown by a pane, which is where keys go.
ShownWindows == { pm.panes[id].win : id \in DOMAIN pm.panes } \ {0}

\* C38: the cursor of every editor window that a pane shows is on a line of
\* the text and within it, whatever OpenWindow, UpdateWindow and
\* SetHighlightLine delivered, and no key indexes outside the text.
CursorStaysInText ==
    /\ \A obj \in ShownWindows : CursorInText(heap[obj])
    /\ path # "panic"

\* C38 for the keys alone: a key given to a window whose cursor is inside the
\* text leaves it inside the text and indexes nothing outside.
KeysKeepCursorInText ==
    [][(/\ nKeys' > nKeys
        /\ \A obj \in ShownWindows : CursorInText(heap[obj]))
          => /\ \A obj \in ShownWindows : CursorInText(heap'[obj])
             /\ path' # "panic"]_vars

\* C38 for SetHighlightLine alone.
HighlightKeepsCursorInText ==
    [][(/\ path' = "setHighlightLine"
        /\ \A obj \in ShownWindows : CursorInText(heap[obj]))
          => \A obj \in ShownWindows : CursorInText(heap'[obj])]_vars


\* The pane in focus after each of n calls of FocusNext (next = TRUE) or of
\* FocusPrev, starting from pane manager m.
RECURSIVE FocusRun(_, _, _)
FocusRun(m, n, next) ==
    IF n = 0 THEN <<>>
    ELSE LET m1 == IF next THEN FocusNext(m) ELSE FocusPrev(m)
         IN  << m1.focusedID >> \o FocusRun(m1, n - 1, next)

\* As many calls as m has panes focus every pane, hence each once, and end on
\* the pane they started from.
VisitsAll(m, next) ==
    LET n == Cardinality(DOMAIN m.panes)
        run == FocusRun(m, n, next)
    IN  (n >= 1 /\ m.focusedID \in DOMAIN m.panes) =>
            /\ { run[i] : i \in 1..n } = DOMAIN m.panes
            /\ run[n] = m.focusedID

\* C39: with n >= 1 panes, one of them in focus, n calls of FocusNext focus
\* every pane exactly once and end on the starting pane, and so do n calls of
\* FocusPrev.
FocusCyclesVisitAll == VisitsAll(pm, TRUE) /\ VisitsAll(pm, FALSE)

\* The z-order names every pane once and nothing else.
ZOrderOfPanes(m) ==
    /\ NoRepeat(m.zOrder)
    /\ { m.zOrder[i] : i \in 1..Len(m.zOrder) } = DOMAIN m.panes

\* C39 for FocusNext alone, where the z-order names every pane once.
FocusNextVisitsAll == ZOrderOfPanes(pm) => VisitsAll(pm, TRUE)

\* C39 for FocusPrev where at most two panes exist and the z-order names
\* each once.
FocusPrevVisitsBoth ==
    (ZOrderOfPanes(pm) /\ Cardinality(DOMAIN pm.panes) <= 2) => VisitsAll(pm, FALSE)

\* C39 for FocusPrev alone, where the z-order names every pane once.
FocusPrevVisitsAll == ZOrderOfPanes(pm) => VisitsAll(pm, FALSE)


\* runExpr has returned, or the program has ended in log.Fatalf or a panic.
RunEnded == runPc \in {"done", "fatal", "panic"}

\* A prompt of type t is among the frames written and not yet read.
PromptWritten(t) ==
    \E i \in 1..Len(runWire) : runWire[i] = CmdFrame("SetPromptType", [type |-> t])

\* C40: once the interpreter has written a SetPromptType of a type above 0,
\* or has closed the connection, the run of the expression ends, whatever
\* frames came before.
RunExprTerminates ==
    ((\E t \in 1..4 : PromptWritten(t)) \/ ~runUp) ~> RunEnded

\* C40 for the prompt of type 1 and for a closed connection.
RunExprEndsOnReady == (PromptWritten(1) \/ ~runUp) ~> RunEnded

\* C40 without its termination: runExpr returns only from the turn that reads
\* a SetPromptType of type 1, and a frame that is no message ends the program
\* in a panic.
RunExprReturnsOnReady ==
    [][/\ (runPc' = "done" /\ runPc # "done")
            => runWire # <<>> /\ Head(runWire) = CmdFrame("SetPromptType", [type |-> 1])
       /\ (runPc' = "panic" /\ runPc # "panic")
            => runWire # <<>> /\ Head(runWire).form # "cmd"]_vars

====
